---- MODULE Spec2Model ----
(***************************************************************************)
(* ConnectMyGear: the connection inference engine (utils/inference.ts),    *)
(* and the workspace state of the application (App.tsx) that calls it.     *)
(*                                                                         *)
(* Conventions.  An optional field of string type (Port.domain,            *)
(* Port.audioWiring, Port.physicalConnector) holds the string Undefined    *)
(* when it is absent.  An optional field of an object (Connection.issues,  *)
(* ConnectorCompatibility.adapterCodes, CableSuggestion.requiresAdapter)   *)
(* is a record key that is present or not.  A local that holds a list, a   *)
(* port or a device, or undefined, is Some(v) or None.  A JavaScript Set   *)
(* or Map, which iterates in insertion order, is a sequence without        *)
(* repetitions.                                                            *)
(***************************************************************************)
EXTENDS Integers, Sequences, FiniteSets, TLC

VARIABLES
  workspaceDevices,  \* App state: WorkspaceDevice[]; the engine's deviceInstances
  connections,       \* App state: Connection[]; the engine's declared connections
  selectedPort,      \* App state: PortReference | null
  options,           \* the InferenceOptions object handed to the engine
  inference          \* App.inference: the InferenceResult of the latest call, or Null

vars == <<workspaceDevices, connections, selectedPort, options, inference>>

Undefined == "undefined"
Null == [null |-> TRUE]

\* a value of a type that is not a string, or undefined
None == [none |-> TRUE]
Some(v) == [value |-> v]
IsSome(o) == "value" \in DOMAIN o

----------------------------------------------------------------------------
(* Generic list helpers, after the Array and Set methods the code uses       *)

Range(s) == {s[i] : i \in DOMAIN s}

includes(s, x) == \E i \in DOMAIN s : s[i] = x

Has(r, key) == key \in DOMAIN r

\* the slip of lines 217 and 392 that C9 is checked against: warnings kept in
\* an array that every message is pushed to
SetAddAlways(s, x) == Append(s, x)

\* Set.prototype.add on an insertion-ordered set
SetAdd(s, x) == IF includes(s, x) THEN s ELSE Append(s, x)

RECURSIVE SetAddAll(_, _)
SetAddAll(s, items) ==
  IF items = <<>> THEN s ELSE SetAddAll(SetAdd(s, Head(items)), Tail(items))

RECURSIVE join(_, _)
join(parts, separator) ==
  IF parts = <<>> THEN ""
  ELSE IF Len(parts) = 1 THEN parts[1]
  ELSE parts[1] \o separator \o join(Tail(parts), separator)

\* intersection<T>(a, b) = a.filter((item) => b.includes(item))
intersection(a, b) == SelectSeq(a, LAMBDA item : includes(b, item))

----------------------------------------------------------------------------
(* models/Port.ts                                                          *)

PortDirection == {"in", "out", "in_out"}

PhysicalConnector ==
  {"6.35mm-ts", "6.35mm-trs", "xlr", "rca", "3.5mm-trs", "din5", "trs-midi"}

AudioWiring == {"balanced_mono", "unbalanced_mono", "unbalanced_stereo"}

PortDomain == {"audio", "midi"}

PortConnector ==
  {"din_5", "trs_3.5mm", "ts_6.35mm", "trs_6.35mm", "usb_c", "usb_b", "usb_a",
   "xlr", "combo_xlr_trs", "sync_out", "sync_in", "cv_gate"} \cup PhysicalConnector

PortSignal == {"audio", "midi", "sync", "usb_audio", "usb_midi", "cv"}

----------------------------------------------------------------------------
(* utils/inference.ts: the lookup tables                                   *)

LEGACY_CONNECTOR_MAP ==
  [c \in PortConnector |->
     CASE c = "din_5" -> "din5"
       [] c = "trs_3.5mm" -> "3.5mm-trs"
       [] c = "ts_6.35mm" -> "6.35mm-ts"
       [] c = "trs_6.35mm" -> "6.35mm-trs"
       [] c = "combo_xlr_trs" -> "6.35mm-trs"
       [] c = "xlr" -> "xlr"
       [] c = "rca" -> "rca"
       [] c = "6.35mm-ts" -> "6.35mm-ts"
       [] c = "6.35mm-trs" -> "6.35mm-trs"
       [] c = "3.5mm-trs" -> "3.5mm-trs"
       [] c = "din5" -> "din5"
       [] c = "trs-midi" -> "trs-midi"
       [] OTHER -> Undefined]

ADAPTER_MATRIX ==
  [key \in {"3.5mm-trs:6.35mm-trs", "3.5mm-trs:6.35mm-ts", "trs-midi:din5"} |->
     CASE key = "3.5mm-trs:6.35mm-trs" -> <<"stereo-breakout-cable">>
       [] key = "3.5mm-trs:6.35mm-ts" -> <<"stereo-breakout-cable">>
       [] key = "trs-midi:din5" -> <<"trs-midi-to-din5">>]

ADAPTER_LABELS ==
  [code \in {"stereo-breakout-cable", "trs-midi-to-din5"} |->
     CASE code = "stereo-breakout-cable" -> "TRS stereo breakout cable"
       [] code = "trs-midi-to-din5" -> "TRS-A to DIN-5 MIDI cable"]

PHYSICAL_CONNECTORS ==
  <<"6.35mm-ts", "6.35mm-trs", "xlr", "rca", "3.5mm-trs", "din5", "trs-midi">>

----------------------------------------------------------------------------
(* utils/inference.ts: the compatibility resolver                          *)

isPhysicalConnector(value) == includes(PHYSICAL_CONNECTORS, value)

\* the slip of lines 102-108 that C5 is checked against: the override is
\* consulted after the connector code
getPhysicalConnectorCodeFirst(port) ==
  IF isPhysicalConnector(port.connector) THEN port.connector
  ELSE IF port.physicalConnector # Undefined THEN port.physicalConnector
  ELSE LEGACY_CONNECTOR_MAP[port.connector]

getPhysicalConnector(port) ==
  IF port.physicalConnector # Undefined THEN port.physicalConnector
  ELSE IF isPhysicalConnector(port.connector) THEN port.connector
  ELSE LEGACY_CONNECTOR_MAP[port.connector]

\* the slip of lines 118-124 that C3 is checked against: midi is looked for first
getPortDomainMidiFirst(port) ==
  IF port.domain # Undefined THEN port.domain
  ELSE IF includes(port.signals, "midi") THEN "midi"
  ELSE IF includes(port.signals, "audio") THEN "audio"
  ELSE Undefined

getPortDomain(port) ==
  IF port.domain # Undefined THEN port.domain
  ELSE IF includes(port.signals, "audio") THEN "audio"
  ELSE IF includes(port.signals, "midi") THEN "midi"
  ELSE Undefined

getAudioWiring(port) ==
  IF ~includes(port.signals, "audio") THEN Undefined ELSE port.audioWiring

\* ADAPTER_MATRIX[key]: None when the key is missing
adapterMatrixLookup(key) ==
  IF key \in DOMAIN ADAPTER_MATRIX THEN Some(ADAPTER_MATRIX[key]) ELSE None

\* the slip of lines 141-144 that C4 is checked against: no reverse lookup
resolveAdapterChainForwardOnly(from, to) == adapterMatrixLookup(from \o ":" \o to)

resolveAdapterChain(from, to) ==
  LET forward == adapterMatrixLookup(from \o ":" \o to)
      reverse == adapterMatrixLookup(to \o ":" \o from)
  IN  IF IsSome(forward) THEN forward
      ELSE IF IsSome(reverse) THEN reverse
      ELSE None

\* the slip that C21 is checked against: the pair set without the TRS family
sixPointThreeFivePairsTsOnly == {"6.35mm-ts"}

sixPointThreeFivePairs == {"6.35mm-ts", "6.35mm-trs"}

\* the looser rule that C20 is checked against: the USB codes taken as one
\* family in the fallback
rawConnectorCompatibilityUsbFamily(fromPort, toPort) ==
  IF fromPort.connector = toPort.connector
    THEN [compatible |-> TRUE, resultingConnector |-> fromPort.connector]
  ELSE IF {fromPort.connector, toPort.connector} \subseteq {"usb_a", "usb_b", "usb_c"}
    THEN [compatible |-> TRUE, resultingConnector |-> toPort.connector]
  ELSE IF \/ (fromPort.connector = "combo_xlr_trs" /\ toPort.connector = "trs_6.35mm")
          \/ (toPort.connector = "combo_xlr_trs" /\ fromPort.connector = "trs_6.35mm")
    THEN [compatible |-> TRUE, resultingConnector |-> "6.35mm-trs"]
  ELSE IF \/ (fromPort.connector = "combo_xlr_trs" /\ toPort.connector = "ts_6.35mm")
          \/ (toPort.connector = "combo_xlr_trs" /\ fromPort.connector = "ts_6.35mm")
    THEN [compatible |-> TRUE, resultingConnector |-> "6.35mm-ts"]
  ELSE [compatible |-> FALSE]

\* lines 168-186: the fallback on the raw connector codes
rawConnectorCompatibility(fromPort, toPort) ==
  IF fromPort.connector = toPort.connector
    THEN [compatible |-> TRUE, resultingConnector |-> fromPort.connector]
  ELSE IF \/ (fromPort.connector = "combo_xlr_trs" /\ toPort.connector = "trs_6.35mm")
          \/ (toPort.connector = "combo_xlr_trs" /\ fromPort.connector = "trs_6.35mm")
    THEN [compatible |-> TRUE, resultingConnector |-> "6.35mm-trs"]
  ELSE IF \/ (fromPort.connector = "combo_xlr_trs" /\ toPort.connector = "ts_6.35mm")
          \/ (toPort.connector = "combo_xlr_trs" /\ fromPort.connector = "ts_6.35mm")
    THEN [compatible |-> TRUE, resultingConnector |-> "6.35mm-ts"]
  ELSE [compatible |-> FALSE]

getConnectorCompatibility(fromPort, toPort) ==
  LET fromPhysical == getPhysicalConnector(fromPort)
      toPhysical == getPhysicalConnector(toPort)
  IN  IF fromPhysical # Undefined /\ toPhysical # Undefined
        THEN IF fromPhysical = toPhysical
               THEN [compatible |-> TRUE, resultingConnector |-> fromPhysical]
             ELSE IF IsSome(resolveAdapterChain(fromPhysical, toPhysical))
               THEN [compatible |-> TRUE, resultingConnector |-> toPhysical,
                     adapterCodes |-> resolveAdapterChain(fromPhysical, toPhysical).value]
             ELSE IF fromPhysical \in sixPointThreeFivePairs /\ toPhysical \in sixPointThreeFivePairs
               THEN [compatible |-> TRUE, resultingConnector |-> "6.35mm-ts"]
             ELSE rawConnectorCompatibility(fromPort, toPort)
      ELSE rawConnectorCompatibility(fromPort, toPort)

\* the slip of line 190 that C6 is checked against: the code is not translated
describeAdapterCodeRaw(code) == code

describeAdapterCode(code) ==
  IF code \in DOMAIN ADAPTER_LABELS THEN ADAPTER_LABELS[code] ELSE code

formatAdapterChain(codes) ==
  IF Len(codes) = 0 THEN ""
  ELSE IF Len(codes) = 1 THEN describeAdapterCode(codes[1])
  ELSE join([i \in DOMAIN codes |-> describeAdapterCode(codes[i])], " + ")

----------------------------------------------------------------------------
(* utils/inference.ts: text helpers                                        *)

describeConnector(connector) ==
  CASE connector = "din_5" -> "5-pin DIN MIDI"
    [] connector = "din5" -> "DIN-5 MIDI"
    [] connector = "trs_3.5mm" -> "3.5 mm TRS"
    [] connector = "3.5mm-trs" -> "3.5 mm TRS"
    [] connector = "ts_6.35mm" -> "6.35 mm TS"
    [] connector = "6.35mm-ts" -> "6.35 mm TS"
    [] connector = "trs_6.35mm" -> "6.35 mm TRS"
    [] connector = "6.35mm-trs" -> "6.35 mm TRS"
    [] connector = "rca" -> "RCA"
    [] connector = "usb_c" -> "USB-C"
    [] connector = "usb_b" -> "USB-B"
    [] connector = "usb_a" -> "USB-A"
    [] connector = "xlr" -> "XLR"
    [] connector = "combo_xlr_trs" -> "combo XLR/TRS"
    [] connector = "trs-midi" -> "TRS MIDI"
    [] connector = "sync_out" -> "sync pulse"
    [] connector = "sync_in" -> "sync pulse"
    [] connector = "cv_gate" -> "CV/Gate"
    [] OTHER -> connector

describeSignal(signal) ==
  CASE signal = "audio" -> "audio"
    [] signal = "midi" -> "MIDI"
    [] signal = "sync" -> "clock"
    [] signal = "usb_audio" -> "USB audio"
    [] signal = "usb_midi" -> "USB MIDI"
    [] signal = "cv" -> "CV"
    [] OTHER -> signal

formatSignals(signals) ==
  IF Len(signals) = 0 THEN "no signals"
  ELSE IF Len(signals) = 1 THEN describeSignal(signals[1])
  ELSE join([i \in 1..(Len(signals) - 1) |-> describeSignal(signals[i])], ", ")
         \o " and " \o describeSignal(signals[Len(signals)])

buildCableDescription(connector, signals) ==
  LET signalLabel ==
        IF Len(signals) = 1 THEN describeSignal(signals[1])
        ELSE join([i \in 1..(Len(signals) - 1) |-> describeSignal(signals[i])], ", ")
               \o " and " \o describeSignal(signals[Len(signals)])
  IN  signalLabel \o " " \o describeConnector(connector) \o " cable"

\* String.prototype.toLowerCase and toUpperCase, on the words devices carry
toLowerCase(s) ==
  CASE s = "Monitor" -> "monitor"
    [] s = "Studio Monitor" -> "studio monitor"
    [] s = "Synthesizer" -> "synthesizer"
    [] s = "Sequencer" -> "sequencer"
    [] s = "Audio Interface" -> "audio interface"
    [] OTHER -> s

toUpperCase(s) ==
  CASE s = "audio" -> "AUDIO"
    [] s = "midi" -> "MIDI"
    [] OTHER -> s

\* String.prototype.includes, for the texts a device category is built from
TextFragments == {"", "studio ", " speaker", "s"}

stringIncludes(s, part) ==
  \E before \in TextFragments, after \in TextFragments : s = before \o part \o after

\* String.prototype.endsWith, for the phrases a cable is described by
endsWith(s, suffix) ==
  \E code \in DOMAIN ADAPTER_LABELS :
    s = ADAPTER_LABELS[code] \o suffix \/ s = code \o suffix

isMonitorDevice(device) ==
  IF \E i \in DOMAIN device.tags : toLowerCase(device.tags[i]) = "monitor" THEN TRUE
  ELSE IF device.category # Undefined /\ stringIncludes(toLowerCase(device.category), "monitor")
    THEN TRUE
  ELSE FALSE

\* Map.prototype.get
mapGet(map, key) == IF key \in DOMAIN map THEN Some(map[key]) ELSE None

\* new Map(deviceInstances.map(...)): a later entry of the same key wins
deviceMapOf(deviceInstances) ==
  [instanceId \in {deviceInstances[i].instanceId : i \in DOMAIN deviceInstances} |->
     LET last == CHOOSE i \in DOMAIN deviceInstances :
                   /\ deviceInstances[i].instanceId = instanceId
                   /\ \A j \in DOMAIN deviceInstances :
                        deviceInstances[j].instanceId = instanceId => j <= i
     IN  deviceInstances[last].device]

formatDeviceList(instanceIds, deviceLookup) ==
  join([i \in DOMAIN instanceIds |->
          IF instanceIds[i] \in DOMAIN deviceLookup
            THEN deviceLookup[instanceIds[i]].name ELSE instanceIds[i]],
       ", ")

\* Array.prototype.find on a device's ports
findPort(device, portId) ==
  IF ~IsSome(device) THEN None
  ELSE IF \E i \in DOMAIN device.value.ports : device.value.ports[i].id = portId
    THEN LET first == CHOOSE i \in DOMAIN device.value.ports :
                        /\ device.value.ports[i].id = portId
                        /\ \A j \in DOMAIN device.value.ports :
                             device.value.ports[j].id = portId => i <= j
         IN  Some(device.value.ports[first])
  ELSE None

----------------------------------------------------------------------------
(* utils/inference.ts: inferConnections, the work done for one connection  *)

BalancedMismatchMessage ==
  "Balanced/unbalanced audio mismatch: connection will work but becomes unbalanced (possible noise/level change)."

StereoMismatchMessage ==
  "Stereo-to-mono audio mismatch: one channel may be lost, or the mono result may sound wrong."

\* lines 284-288
domainIssue(fromPort, toPort, fromDomain, toDomain) ==
  IF fromDomain # Undefined /\ toDomain # Undefined /\ fromDomain # toDomain
    THEN <<fromPort.label \o " (" \o toUpperCase(fromDomain) \o ") cannot connect to "
             \o toPort.label \o " (" \o toUpperCase(toDomain) \o ").">>
    ELSE <<>>

\* lines 280-309: the issues found when both ports exist, in detection order
portPairIssues(fromPort, toPort) ==
  domainIssue(fromPort, toPort, getPortDomain(fromPort), getPortDomain(toPort))
  \o
  (IF Len(intersection(fromPort.signals, toPort.signals)) = 0
     THEN <<fromPort.label \o " (" \o formatSignals(fromPort.signals)
              \o ") does not share signals with " \o toPort.label
              \o " (" \o formatSignals(toPort.signals) \o ").">>
     ELSE <<>>)
  \o
  (IF ~getConnectorCompatibility(fromPort, toPort).compatible
     THEN <<fromPort.label \o " (" \o describeConnector(fromPort.connector)
              \o ") is not compatible with " \o toPort.label
              \o " (" \o describeConnector(toPort.connector) \o ").">>
     ELSE <<>>)

\* the slip of line 272 that C2 is checked against: every source that is not
\* output-only is refused
endpointIssuesOutputOnlySource(fromDevice, toDevice, fromPort, toPort) ==
  (IF ~IsSome(fromDevice) THEN <<"Source device is no longer available.">> ELSE <<>>)
  \o (IF ~IsSome(toDevice) THEN <<"Destination device is no longer available.">> ELSE <<>>)
  \o (IF ~IsSome(fromPort) THEN <<"Source port not found on device.">> ELSE <<>>)
  \o (IF ~IsSome(toPort) THEN <<"Destination port not found on device.">> ELSE <<>>)
  \o (IF IsSome(fromPort) /\ fromPort.value.direction # "out"
        THEN <<fromPort.value.label \o " cannot send signals (input-only).">> ELSE <<>>)
  \o (IF IsSome(toPort) /\ toPort.value.direction = "out"
        THEN <<toPort.value.label \o " cannot receive signals (output-only).">> ELSE <<>>)

\* lines 253-278: the issues found while looking up the two ends
endpointIssues(fromDevice, toDevice, fromPort, toPort) ==
  (IF ~IsSome(fromDevice) THEN <<"Source device is no longer available.">> ELSE <<>>)
  \o (IF ~IsSome(toDevice) THEN <<"Destination device is no longer available.">> ELSE <<>>)
  \o (IF ~IsSome(fromPort) THEN <<"Source port not found on device.">> ELSE <<>>)
  \o (IF ~IsSome(toPort) THEN <<"Destination port not found on device.">> ELSE <<>>)
  \o (IF IsSome(fromPort) /\ fromPort.value.direction = "in"
        THEN <<fromPort.value.label \o " cannot send signals (input-only).">> ELSE <<>>)
  \o (IF IsSome(toPort) /\ toPort.value.direction = "out"
        THEN <<toPort.value.label \o " cannot receive signals (output-only).">> ELSE <<>>)

\* lines 250-309: blockingIssues once the connection has been looked at
blockingIssuesFor(fromDevice, toDevice, fromPort, toPort) ==
  endpointIssues(fromDevice, toDevice, fromPort, toPort)
  \o (IF IsSome(fromPort) /\ IsSome(toPort)
        THEN portPairIssues(fromPort.value, toPort.value) ELSE <<>>)

\* the slip of lines 311-312 that C7 is checked against: blockingIssues is
\* not looked at
isValidConnectionIgnoringIssues(fromPort, toPort, blockingIssues) ==
  /\ IsSome(fromPort) /\ IsSome(toPort)
  /\ Len(intersection(fromPort.value.signals, toPort.value.signals)) > 0
  /\ getConnectorCompatibility(fromPort.value, toPort.value).compatible

\* lines 311-312; false as well when a port is missing (line 280)
isValidConnection(fromPort, toPort, blockingIssues) ==
  /\ IsSome(fromPort) /\ IsSome(toPort)
  /\ Len(intersection(fromPort.value.signals, toPort.value.signals)) > 0
  /\ getConnectorCompatibility(fromPort.value, toPort.value).compatible
  /\ Len(blockingIssues) = 0

\* lines 316-318: the adapter phrase, Undefined when no adapter is needed
adapterDescriptionOf(connectorCompatibility) ==
  IF Has(connectorCompatibility, "adapterCodes") /\ Len(connectorCompatibility.adapterCodes) > 0
    THEN formatAdapterChain(connectorCompatibility.adapterCodes)
    ELSE Undefined

\* the slip that C13 is checked against: the stereo rule without its test
\* for an unbalanced_stereo side
wiringAdvisoriesAnyMono(fromAudioWiring, toAudioWiring) ==
  IF fromAudioWiring # Undefined /\ toAudioWiring # Undefined
    THEN (IF "balanced_mono" \in {fromAudioWiring, toAudioWiring}
             /\ "unbalanced_mono" \in {fromAudioWiring, toAudioWiring}
            THEN <<BalancedMismatchMessage>> ELSE <<>>)
         \o
         (IF \/ "balanced_mono" \in {fromAudioWiring, toAudioWiring}
             \/ "unbalanced_mono" \in {fromAudioWiring, toAudioWiring}
            THEN <<StereoMismatchMessage>> ELSE <<>>)
    ELSE <<>>

\* lines 339-356: the two wiring rules
wiringAdvisories(fromAudioWiring, toAudioWiring) ==
  IF fromAudioWiring # Undefined /\ toAudioWiring # Undefined
    THEN (IF "balanced_mono" \in {fromAudioWiring, toAudioWiring}
             /\ "unbalanced_mono" \in {fromAudioWiring, toAudioWiring}
            THEN <<BalancedMismatchMessage>> ELSE <<>>)
         \o
         (IF /\ "unbalanced_stereo" \in {fromAudioWiring, toAudioWiring}
             /\ \/ "balanced_mono" \in {fromAudioWiring, toAudioWiring}
                \/ "unbalanced_mono" \in {fromAudioWiring, toAudioWiring}
            THEN <<StereoMismatchMessage>> ELSE <<>>)
    ELSE <<>>

\* if (adapterDescription): neither undefined nor the empty string
isTruthy(text) == text # Undefined /\ text # ""

\* lines 327-356: advisoryMessages of a connection that passed every check
advisoryMessagesFor(adapterDescription, fromPort, toPort) ==
  (IF isTruthy(adapterDescription) THEN <<"Use " \o adapterDescription>> ELSE <<>>)
  \o wiringAdvisories(getAudioWiring(fromPort), getAudioWiring(toPort))

\* a ?? b
Coalesce(a, b) == IF a # Undefined THEN a ELSE b

\* lines 315-332: the cable suggestion of a connection that passed every check
\* the slip that C14 is checked against: the description built from the
\* cable connector also when an adapter phrase exists
cableSuggestionForPlainDescription(connection, cableConnector, signalOverlap, connectorCompatibility, adapterDescription) ==
  [id |-> connection.id \o "-cable",
   description |-> buildCableDescription(cableConnector, signalOverlap),
   connector |-> cableConnector,
   ports |-> <<connection.from, connection.to>>]
  @@ (IF Has(connectorCompatibility, "adapterCodes")
        THEN [adapters |-> connectorCompatibility.adapterCodes] ELSE <<>>)
  @@ (IF isTruthy(adapterDescription)
        THEN [requiresAdapter |-> "Use " \o adapterDescription] ELSE <<>>)

cableSuggestionFor(connection, cableConnector, signalOverlap, connectorCompatibility, adapterDescription) ==
  [id |-> connection.id \o "-cable",
   description |-> IF adapterDescription # Undefined
                     THEN adapterDescription
                     ELSE buildCableDescription(cableConnector, signalOverlap),
   connector |-> cableConnector,
   ports |-> <<connection.from, connection.to>>]
  @@ (IF Has(connectorCompatibility, "adapterCodes")
        THEN [adapters |-> connectorCompatibility.adapterCodes] ELSE <<>>)
  @@ (IF isTruthy(adapterDescription)
        THEN [requiresAdapter |-> "Use " \o adapterDescription] ELSE <<>>)

\* line 315
cableConnectorOf(connectorCompatibility, fromPort) ==
  IF Has(connectorCompatibility, "resultingConnector")
    THEN connectorCompatibility.resultingConnector
    ELSE fromPort.connector

\* lines 358-364: the workflow sentence of a connection that passed every check
summaryFor(connection, fromDevice, toDevice, summaryLabel) ==
  Coalesce(connection.from.deviceName, Coalesce(fromDevice.name, connection.from.deviceId))
    \o " → "
    \o Coalesce(connection.to.deviceName, Coalesce(toDevice.name, connection.to.deviceId))
    \o ": Use "
    \o (IF endsWith(summaryLabel, ".") THEN summaryLabel ELSE summaryLabel \o ".")

\* the slip of lines 394-399 that C11 is checked against: any issue at all,
\* advisory or blocking, makes the connection 'invalid'
statusOfAnyIssue(blockingIssues, advisoryMessages) ==
  IF Len(blockingIssues) + Len(advisoryMessages) > 0 THEN "invalid" ELSE "valid"

\* lines 394-399
statusOf(blockingIssues, advisoryMessages) ==
  IF Len(blockingIssues) > 0 THEN "invalid"
  ELSE IF Len(advisoryMessages) > 0 THEN "pending"
  ELSE "valid"

\* the slip of line 404 that C1 is checked against: issues set even when empty
updatedConnectionAlwaysIssues(connection, status, combinedIssues) ==
  [key \in DOMAIN connection \ {"status", "issues"} |-> connection[key]]
  @@ [status |-> status, issues |-> combinedIssues]

\* the slip of lines 401-405 that C8 is checked against: issues is written
\* only when there are issues, so the issues of the input survive otherwise
updatedConnectionKeepingIssues(connection, status, combinedIssues) ==
  [key \in DOMAIN connection
            \ (IF Len(combinedIssues) > 0 THEN {"status", "issues"} ELSE {"status"}) |->
     connection[key]]
  @@ [status |-> status]
  @@ (IF Len(combinedIssues) > 0 THEN [issues |-> combinedIssues] ELSE <<>>)

\* lines 401-405: { ...connection, status, issues }
updatedConnectionOf(connection, status, combinedIssues) ==
  [key \in DOMAIN connection \ {"status", "issues"} |-> connection[key]]
  @@ [status |-> status]
  @@ (IF Len(combinedIssues) > 0 THEN [issues |-> combinedIssues] ELSE <<>>)

----------------------------------------------------------------------------
(* utils/inference.ts: inferConnections                                    *)

\* the slip of line 217 that C10 is checked against: the warning set is
\* created once, outside the function, and is never cleared
localsKeptBetweenCalls ==
  [updatedConnections |-> <<>>, warnings |-> inference.warnings, requiredCables |-> <<>>,
   summaries |-> <<>>, midiChainInstances |-> <<>>, audioLinkedInstances |-> <<>>,
   audioToMonitorInstances |-> <<>>]

\* lines 216-219 and 242-244: the locals a call starts with
freshLocals ==
  [updatedConnections |-> <<>>, warnings |-> <<>>, requiredCables |-> <<>>,
   summaries |-> <<>>, midiChainInstances |-> <<>>, audioLinkedInstances |-> <<>>,
   audioToMonitorInstances |-> <<>>]

\* the instanceId of each instance, in order
instanceIdsOf(deviceInstances) ==
  [i \in DOMAIN deviceInstances |-> deviceInstances[i].instanceId]

hasAudioOutput(device) ==
  \E i \in DOMAIN device.ports :
    /\ device.ports[i].direction \in {"out", "in_out"}
    /\ includes(device.ports[i].signals, "audio")

hasMidi(device) ==
  \E i \in DOMAIN device.ports :
    includes(device.ports[i].signals, "midi") \/ includes(device.ports[i].signals, "usb_midi")

\* lines 221-240: the three sets built from the placed instances
monitorInstancesOf(deviceInstances) ==
  SetAddAll(<<>>, instanceIdsOf(SelectSeq(deviceInstances,
                                          LAMBDA instance : isMonitorDevice(instance.device))))

audioCapableInstancesOf(deviceInstances) ==
  SetAddAll(<<>>, instanceIdsOf(SelectSeq(deviceInstances,
                                          LAMBDA instance : hasAudioOutput(instance.device))))

midiCapableInstancesOf(deviceInstances) ==
  SetAddAll(<<>>, instanceIdsOf(SelectSeq(deviceInstances,
                                          LAMBDA instance : hasMidi(instance.device))))

\* a conditional Set.prototype.add
SetAddIf(condition, s, x) == IF condition THEN SetAdd(s, x) ELSE s

\* the slip that C17 is checked against: usb_midi counted as a MIDI link
topologyAfterCountingUsbMidi(locals, connection, fromPort, toPort, signalsUsed, monitorInstances) ==
  [locals EXCEPT
     !.midiChainInstances =
        SetAddIf({"midi", "usb_midi"} \cap signalsUsed # {},
                 SetAddIf({"midi", "usb_midi"} \cap signalsUsed # {},
                          @, connection.from.instanceId),
                 connection.to.instanceId),
     !.audioLinkedInstances =
        SetAddIf("audio" \in signalsUsed /\ toPort.direction # "out",
                 SetAddIf("audio" \in signalsUsed /\ fromPort.direction # "in",
                          @, connection.from.instanceId),
                 connection.to.instanceId),
     !.audioToMonitorInstances =
        SetAddIf("audio" \in signalsUsed /\ includes(monitorInstances, connection.from.instanceId),
                 SetAddIf("audio" \in signalsUsed
                            /\ includes(monitorInstances, connection.to.instanceId),
                          @, connection.from.instanceId),
                 connection.to.instanceId)]

\* the slip that C19 is checked against: only the receiving end of an audio
\* connection recorded as audio-linked
topologyAfterSendersUnlinked(locals, connection, fromPort, toPort, signalsUsed, monitorInstances) ==
  [locals EXCEPT
     !.midiChainInstances =
        SetAddIf("midi" \in signalsUsed,
                 SetAddIf("midi" \in signalsUsed, @, connection.from.instanceId),
                 connection.to.instanceId),
     !.audioLinkedInstances =
        SetAddIf("audio" \in signalsUsed /\ toPort.direction # "out",
                 @, connection.to.instanceId),
     !.audioToMonitorInstances =
        SetAddIf("audio" \in signalsUsed /\ includes(monitorInstances, connection.from.instanceId),
                 SetAddIf("audio" \in signalsUsed
                            /\ includes(monitorInstances, connection.to.instanceId),
                          @, connection.from.instanceId),
                 connection.to.instanceId)]

\* lines 367-388: what a connection that passed every check adds to the topology sets
topologyAfter(locals, connection, fromPort, toPort, signalsUsed, monitorInstances) ==
  [locals EXCEPT
     !.midiChainInstances =
        SetAddIf("midi" \in signalsUsed,
                 SetAddIf("midi" \in signalsUsed, @, connection.from.instanceId),
                 connection.to.instanceId),
     !.audioLinkedInstances =
        SetAddIf("audio" \in signalsUsed /\ toPort.direction # "out",
                 SetAddIf("audio" \in signalsUsed /\ fromPort.direction # "in",
                          @, connection.from.instanceId),
                 connection.to.instanceId),
     !.audioToMonitorInstances =
        SetAddIf("audio" \in signalsUsed /\ includes(monitorInstances, connection.from.instanceId),
                 SetAddIf("audio" \in signalsUsed
                            /\ includes(monitorInstances, connection.to.instanceId),
                          @, connection.from.instanceId),
                 connection.to.instanceId)]

\* lines 391-405: the end of the loop body
pushConnection(locals, connection, blockingIssues, advisoryMessages) ==
  [locals EXCEPT
     !.warnings = SetAddAll(@, blockingIssues \o advisoryMessages),
     !.updatedConnections =
        Append(@, updatedConnectionOf(connection, statusOf(blockingIssues, advisoryMessages),
                                      blockingIssues \o advisoryMessages))]

\* lines 319-365: the cable, the adapter warning and the summary of a valid connection
pushCable(locals, connection, fromDevice, toDevice, cableSuggestion, adapterDescription) ==
  [locals EXCEPT
     !.warnings = SetAddIf(Has(cableSuggestion, "requiresAdapter"), @,
                           "Use " \o adapterDescription),
     !.requiredCables = Append(@, cableSuggestion),
     !.summaries = Append(@, summaryFor(connection, fromDevice, toDevice,
                                        Coalesce(adapterDescription,
                                                 cableSuggestion.description)))]

\* lines 314-388: the two blocks guarded by isValidConnection
evaluateValid(locals, connection, fromDevice, toDevice, fromPort, toPort, blockingIssues, connectorCompatibility, adapterDescription, signalOverlap, monitorInstances) ==
  pushConnection(
    topologyAfter(
      pushCable(locals, connection, fromDevice, toDevice,
                cableSuggestionFor(connection,
                                   cableConnectorOf(connectorCompatibility, fromPort),
                                   signalOverlap, connectorCompatibility, adapterDescription),
                adapterDescription),
      connection, fromPort, toPort, Range(signalOverlap), monitorInstances),
    connection, blockingIssues, advisoryMessagesFor(adapterDescription, fromPort, toPort))

\* the slip of lines 311-356 that C12 is checked against: the advisory
\* messages are worked out whether or not the connection is blocked
evaluateCheckedFoldingAdvisories(locals, connection, fromDevice, toDevice, fromPort, toPort, blockingIssues, monitorInstances) ==
  IF isValidConnection(fromPort, toPort, blockingIssues)
    THEN evaluateValid(locals, connection, fromDevice.value, toDevice.value,
                       fromPort.value, toPort.value, blockingIssues,
                       getConnectorCompatibility(fromPort.value, toPort.value),
                       adapterDescriptionOf(
                         getConnectorCompatibility(fromPort.value, toPort.value)),
                       intersection(fromPort.value.signals, toPort.value.signals),
                       monitorInstances)
    ELSE pushConnection(locals, connection, blockingIssues,
                        IF IsSome(fromPort) /\ IsSome(toPort)
                          THEN advisoryMessagesFor(
                                 adapterDescriptionOf(
                                   getConnectorCompatibility(fromPort.value, toPort.value)),
                                 fromPort.value, toPort.value)
                          ELSE <<>>)

\* lines 280-405, once the blocking issues are known
evaluateChecked(locals, connection, fromDevice, toDevice, fromPort, toPort, blockingIssues, monitorInstances) ==
  IF isValidConnection(fromPort, toPort, blockingIssues)
    THEN evaluateValid(locals, connection, fromDevice.value, toDevice.value,
                       fromPort.value, toPort.value, blockingIssues,
                       getConnectorCompatibility(fromPort.value, toPort.value),
                       adapterDescriptionOf(
                         getConnectorCompatibility(fromPort.value, toPort.value)),
                       intersection(fromPort.value.signals, toPort.value.signals),
                       monitorInstances)
    ELSE pushConnection(locals, connection, blockingIssues, <<>>)

\* the slip that C22 is checked against: a connection to a device that is
\* gone is dropped instead of being returned as invalid
evaluateEndpointsSkippingMissing(locals, connection, fromDevice, toDevice, fromPort, toPort, monitorInstances) ==
  IF ~IsSome(fromDevice) \/ ~IsSome(toDevice) THEN locals
  ELSE evaluateChecked(locals, connection, fromDevice, toDevice, fromPort, toPort,
                       blockingIssuesFor(fromDevice, toDevice, fromPort, toPort),
                       monitorInstances)

\* lines 261-405, once the two devices have been looked up
evaluateEndpoints(locals, connection, fromDevice, toDevice, fromPort, toPort, monitorInstances) ==
  evaluateChecked(locals, connection, fromDevice, toDevice, fromPort, toPort,
                  blockingIssuesFor(fromDevice, toDevice, fromPort, toPort),
                  monitorInstances)

\* lines 246-406: the body of connections.forEach
evaluateConnection(locals, connection, deviceMap, monitorInstances) ==
  evaluateEndpoints(locals, connection,
                    mapGet(deviceMap, connection.from.instanceId),
                    mapGet(deviceMap, connection.to.instanceId),
                    findPort(mapGet(deviceMap, connection.from.instanceId),
                             connection.from.portId),
                    findPort(mapGet(deviceMap, connection.to.instanceId),
                             connection.to.portId),
                    monitorInstances)

RECURSIVE evaluateConnections(_, _, _, _)
evaluateConnections(locals, declared, deviceMap, monitorInstances) ==
  IF declared = <<>> THEN locals
  ELSE evaluateConnections(evaluateConnection(locals, Head(declared), deviceMap, monitorInstances),
                           Tail(declared), deviceMap, monitorInstances)

\* the slip that C18 is checked against: the filter of lines 409-412
\* without its test for an audio output
unroutedMidiAudioOfAnyMember(locals, monitorInstances, audioCapableInstances) ==
  SelectSeq(locals.midiChainInstances,
            LAMBDA instanceId : /\ ~includes(locals.audioLinkedInstances, instanceId)
                                /\ ~includes(monitorInstances, instanceId))

\* lines 409-412
unroutedMidiAudioOf(locals, monitorInstances, audioCapableInstances) ==
  SelectSeq(locals.midiChainInstances,
            LAMBDA instanceId : /\ includes(audioCapableInstances, instanceId)
                                /\ ~includes(locals.audioLinkedInstances, instanceId)
                                /\ ~includes(monitorInstances, instanceId))

\* lines 408-425: the unrouted-audio pass
unroutedAudioWarnings(locals, unroutedMidiAudio, deviceMap, monitorInstances, audioCapableInstances) ==
  IF Len(locals.midiChainInstances) > 1 /\ Len(unroutedMidiAudio) > 0
    THEN (IF /\ Len(monitorInstances) > 0
             /\ Len(locals.audioToMonitorInstances) <= 1
             /\ Len(audioCapableInstances) > 1
            THEN <<"Multiple MIDI-linked devices detected, but only one audio feed reaches monitors. Route additional outputs (e.g., into a mixer) so every device can be heard.">>
            ELSE <<>>)
         \o <<"Audio from " \o formatDeviceList(unroutedMidiAudio, deviceMap)
                \o " is not routed to any destination. Connect these devices to a mixer, audio interface, or monitors.">>
    ELSE <<>>

\* lines 429-435
unclockedMidiDevicesOf(midiChainInstances, deviceMap, midiCapableInstances) ==
  SelectSeq(midiCapableInstances,
            LAMBDA instanceId : /\ ~includes(midiChainInstances, instanceId)
                                /\ instanceId \in DOMAIN deviceMap)

\* lines 430-435
unclockedWarnings(unclockedMidiDevices, deviceMap) ==
  [i \in DOMAIN unclockedMidiDevices |->
     deviceMap[unclockedMidiDevices[i]].name
       \o " has MIDI ports but is not connected to the MIDI clock network."]

\* the slip that C16 is checked against: the body of midiMasters.forEach
\* without the return that ends its first branch
masterWarningWithoutReturn(instanceId, midiChainInstances, deviceMap, midiCapableInstances) ==
  (IF ~includes(midiCapableInstances, instanceId) /\ instanceId \in DOMAIN deviceMap
     THEN <<deviceMap[instanceId].name
              \o " is marked as clock master but has no MIDI clock outputs.">>
     ELSE <<>>)
  \o
  (IF ~includes(midiChainInstances, instanceId) /\ instanceId \in DOMAIN deviceMap
     THEN <<deviceMap[instanceId].name
              \o " is the clock master but is not connected to any MIDI devices.">>
     ELSE <<>>)

\* lines 445-459: the body of midiMasters.forEach
masterWarning(instanceId, midiChainInstances, deviceMap, midiCapableInstances) ==
  IF ~includes(midiCapableInstances, instanceId)
    THEN IF instanceId \in DOMAIN deviceMap
           THEN <<deviceMap[instanceId].name
                    \o " is marked as clock master but has no MIDI clock outputs.">>
           ELSE <<>>
  ELSE IF ~includes(midiChainInstances, instanceId) /\ instanceId \in DOMAIN deviceMap
    THEN <<deviceMap[instanceId].name
             \o " is the clock master but is not connected to any MIDI devices.">>
  ELSE <<>>

RECURSIVE masterWarnings(_, _, _, _)
masterWarnings(midiMasters, midiChainInstances, deviceMap, midiCapableInstances) ==
  IF midiMasters = <<>> THEN <<>>
  ELSE masterWarning(Head(midiMasters), midiChainInstances, deviceMap, midiCapableInstances)
       \o masterWarnings(Tail(midiMasters), midiChainInstances, deviceMap, midiCapableInstances)

\* the slip that C15 is checked against: the missing-master warning without
\* the test for a MIDI-capable instance
clockWarningsWithoutCapabilityTest(midiChainInstances, deviceMap, midiCapableInstances, midiMasters) ==
  unclockedWarnings(unclockedMidiDevicesOf(midiChainInstances, deviceMap,
                                           midiCapableInstances), deviceMap)
  \o (IF Len(midiMasters) = 0
        THEN <<"Set a clock master so your MIDI devices stay in sync.">> ELSE <<>>)
  \o (IF Len(midiMasters) > 1
        THEN <<"Multiple MIDI clock masters selected. Choose only one master clock device.">>
        ELSE <<>>)
  \o masterWarnings(midiMasters, midiChainInstances, deviceMap, midiCapableInstances)

\* lines 427-459: the MIDI clock passes
clockWarnings(midiChainInstances, deviceMap, midiCapableInstances, midiMasters) ==
  unclockedWarnings(unclockedMidiDevicesOf(midiChainInstances, deviceMap,
                                           midiCapableInstances), deviceMap)
  \o (IF Len(midiCapableInstances) > 0 /\ Len(midiMasters) = 0
        THEN <<"Set a clock master so your MIDI devices stay in sync.">> ELSE <<>>)
  \o (IF Len(midiMasters) > 1
        THEN <<"Multiple MIDI clock masters selected. Choose only one master clock device.">>
        ELSE <<>>)
  \o masterWarnings(midiMasters, midiChainInstances, deviceMap, midiCapableInstances)

\* line 427
midiMastersOf(opts) == IF Has(opts, "clockMasterIds") THEN opts.clockMasterIds ELSE <<>>

\* lines 408-467: the global passes and the value returned
finishInference(locals, deviceMap, monitorInstances, audioCapableInstances, midiCapableInstances, midiMasters) ==
  [connections |-> locals.updatedConnections,
   warnings |->
     SetAddAll(
       SetAddAll(locals.warnings,
                 unroutedAudioWarnings(
                   locals,
                   unroutedMidiAudioOf(locals, monitorInstances, audioCapableInstances),
                   deviceMap, monitorInstances, audioCapableInstances)),
       clockWarnings(locals.midiChainInstances, deviceMap, midiCapableInstances, midiMasters)),
   requiredCables |-> locals.requiredCables,
   summaries |-> locals.summaries]

\* lines 207-467, once deviceMap and the monitor set are built
inferWith(locals, deviceInstances, declared, opts, deviceMap, monitorInstances) ==
  finishInference(evaluateConnections(locals, declared, deviceMap, monitorInstances),
                  deviceMap, monitorInstances,
                  audioCapableInstancesOf(deviceInstances),
                  midiCapableInstancesOf(deviceInstances),
                  midiMastersOf(opts))

\* lines 207-467; the locals the call starts with are a parameter of this
\* definition so that what the call reads is explicit
inferConnectionsFrom(locals, deviceInstances, declared, opts) ==
  inferWith(locals, deviceInstances, declared, opts,
            deviceMapOf(deviceInstances), monitorInstancesOf(deviceInstances))

inferConnections(deviceInstances, declared, opts) ==
  inferConnectionsFrom(freshLocals, deviceInstances, declared, opts)

\* A call of inferConnections as its caller sees it: the value returned, and
\* the three argument objects as the call leaves them.  Objects are passed by
\* reference; lines 207-467 assign to no field of an argument (line 401 copies
\* the connection before setting status and issues), so they come back as given.
engineCall(deviceInstances, declared, opts) ==
  [result |-> inferConnections(deviceInstances, declared, opts),
   deviceInstances |-> deviceInstances,
   connections |-> declared,
   options |-> opts]

----------------------------------------------------------------------------
(* Building devices, instances and declared connections                    *)

mkPort(id, label, direction, connector, signals, domain, audioWiring, physicalConnector) ==
  [id |-> id, label |-> label, direction |-> direction, connector |-> connector,
   signals |-> signals, domain |-> domain, audioWiring |-> audioWiring,
   physicalConnector |-> physicalConnector]

mkDevice(id, name, category, tags, ports) ==
  [id |-> id, name |-> name, category |-> category, tags |-> tags, ports |-> ports]

\* isClockMaster is optional and only ever tested for truth: unset is FALSE
mkInstance(instanceId, device) ==
  [instanceId |-> instanceId, device |-> device, isClockMaster |-> FALSE]

\* App.handlePortSelection: the PortReference of a clicked port
portReference(instanceId, device, port) ==
  [instanceId |-> instanceId, deviceId |-> device.id, deviceName |-> device.name,
   portId |-> port.id, portLabel |-> port.label]

\* App.handlePortSelection: the id of a connection
connectionIdOf(from, to) ==
  from.instanceId \o "-" \o from.portId \o "::" \o to.instanceId \o "-" \o to.portId

\* App.handlePortSelection: a newly declared connection
newConnection(from, to) ==
  [id |-> connectionIdOf(from, to), from |-> from, to |-> to, status |-> "pending"]

----------------------------------------------------------------------------
(* The engine applied to one link between two single-port devices          *)

OptionalPhysicalConnector == PhysicalConnector \cup {Undefined}
OptionalDomain == PortDomain \cup {Undefined}
OptionalAudioWiring == AudioWiring \cup {Undefined}

\* two placed devices with one port each
linkDevices(fromPort, toPort) ==
  << mkInstance("keystep-1", mkDevice("keystep", "Keystep", "Sequencer", <<>>, <<fromPort>>)),
     mkInstance("digitakt-1", mkDevice("digitakt", "Digitakt", "Synthesizer", <<>>, <<toPort>>)) >>

\* the link declared from the first device's port to the second's, then the
\* same link declared the other way round
linkConnections(deviceInstances) ==
  << newConnection(
       portReference(deviceInstances[1].instanceId, deviceInstances[1].device,
                     deviceInstances[1].device.ports[1]),
       portReference(deviceInstances[2].instanceId, deviceInstances[2].device,
                     deviceInstances[2].device.ports[1])),
     newConnection(
       portReference(deviceInstances[2].instanceId, deviceInstances[2].device,
                     deviceInstances[2].device.ports[1]),
       portReference(deviceInstances[1].instanceId, deviceInstances[1].device,
                     deviceInstances[1].device.ports[1])) >>

\* every connector code with every physicalConnector override, on two-way audio ports
ResolverPorts(id, label) ==
  { mkPort(id, label, "in_out", connector, <<"audio">>, Undefined, Undefined, physical) :
      connector \in PortConnector, physical \in OptionalPhysicalConnector }

InitResolver ==
  /\ \E fromPort \in ResolverPorts("jack-a", "Jack A"),
        toPort \in ResolverPorts("jack-b", "Jack B") :
       /\ workspaceDevices = linkDevices(fromPort, toPort)
       /\ connections = linkConnections(workspaceDevices)
  /\ selectedPort = Null
  /\ options = [clockMasterIds |-> <<>>]
  /\ inference = Null

\* the caller applies the engine to the inputs it holds
Evaluate ==
  /\ inference = Null
  /\ LET call == engineCall(workspaceDevices, connections, options)
     IN  /\ inference' = call.result
         /\ workspaceDevices' = call.deviceInstances
         /\ connections' = call.connections
         /\ options' = call.options
  /\ UNCHANGED selectedPort

NextResolver == Evaluate

SpecResolver == InitResolver /\ [][NextResolver]_vars

\* The kinds of port the links are drawn from: a connector, its override and
\* the signals it carries.  The first NumProfiles of them are used.
LinkProfiles ==
  << [connector |-> "trs-midi", physicalConnector |-> Undefined, signals |-> <<"midi">>],
     [connector |-> "din5", physicalConnector |-> Undefined, signals |-> <<"midi">>],
     [connector |-> "trs_3.5mm", physicalConnector |-> Undefined, signals |-> <<"audio">>],
     [connector |-> "6.35mm-trs", physicalConnector |-> Undefined, signals |-> <<"audio">>],
     [connector |-> "3.5mm-trs", physicalConnector |-> Undefined,
      signals |-> <<"midi", "audio">>],
     [connector |-> "usb_b", physicalConnector |-> Undefined,
      signals |-> <<"usb_midi", "usb_audio">>],
     [connector |-> "ts_6.35mm", physicalConnector |-> Undefined, signals |-> <<"audio">>],
     [connector |-> "combo_xlr_trs", physicalConnector |-> "xlr", signals |-> <<"audio">>],
     [connector |-> "din_5", physicalConnector |-> Undefined, signals |-> <<"midi", "sync">>],
     [connector |-> "usb_c", physicalConnector |-> Undefined,
      signals |-> <<"usb_audio", "usb_midi", "midi">>] >>

NumProfiles == 6

Min(a, b) == IF a < b THEN a ELSE b

LinkPorts(id, label) ==
  { mkPort(id, label, direction, LinkProfiles[k].connector, LinkProfiles[k].signals,
           domain, audioWiring, LinkProfiles[k].physicalConnector) :
      k \in 1..Min(NumProfiles, Len(LinkProfiles)),
      direction \in PortDirection,
      domain \in OptionalDomain,
      audioWiring \in OptionalAudioWiring }

InitLink ==
  /\ \E fromPort \in LinkPorts("jack-a", "Jack A"), toPort \in LinkPorts("jack-b", "Jack B") :
       /\ workspaceDevices = linkDevices(fromPort, toPort)
       /\ connections = linkConnections(workspaceDevices)
  /\ selectedPort = Null
  /\ options = [clockMasterIds |-> <<>>]
  /\ inference = Null

NextLink == Evaluate

SpecLink == InitLink /\ [][NextLink]_vars

----------------------------------------------------------------------------
(* The engine applied to a workspace of several devices and a list of      *)
(* declared connections                                                    *)

Keystep ==
  mkDevice("keystep", "Keystep", "Sequencer", <<>>,
           << mkPort("midi-out", "MIDI Out", "out", "din_5", <<"midi">>,
                     Undefined, Undefined, Undefined) >>)

Digitakt ==
  mkDevice("digitakt", "Digitakt", "Synthesizer", <<>>,
           << mkPort("midi-in", "MIDI In", "in", "trs-midi", <<"midi">>,
                     "midi", Undefined, Undefined),
              mkPort("main-out", "Main Out", "out", "ts_6.35mm", <<"audio">>,
                     "audio", "unbalanced_mono", Undefined),
              mkPort("midi-out", "MIDI Out", "out", "din_5", <<"midi">>,
                     "midi", Undefined, Undefined) >>)

Volca ==
  mkDevice("volca", "Volca", "Synthesizer", <<>>,
           << mkPort("midi-in", "MIDI In", "in", "din_5", <<"midi">>,
                     Undefined, Undefined, Undefined),
              mkPort("headphones", "Headphones", "out", "trs_3.5mm", <<"audio">>,
                     Undefined, "unbalanced_stereo", Undefined) >>)

StudioMonitor ==
  mkDevice("hs5", "HS5", "Studio Monitor", <<>>,
           << mkPort("input", "Input", "in", "combo_xlr_trs", <<"audio">>,
                     Undefined, "balanced_mono", Undefined) >>)

\* the placed instances; the Volca is placed twice
EngineInstances ==
  << mkInstance("keystep-1", Keystep), mkInstance("digitakt-1", Digitakt),
     mkInstance("volca-1", Volca), mkInstance("volca-2", Volca),
     mkInstance("hs5-1", StudioMonitor) >>

\* the reference a click on the port numbered portIndex of an instance gives
referenceTo(instance, portIndex) ==
  portReference(instance.instanceId, instance.device, instance.device.ports[portIndex])

\* The links the declared connections are drawn from, as pairs of port
\* references.  The first NumLinks of them are used.
EngineLinks ==
  << <<referenceTo(EngineInstances[1], 1), referenceTo(EngineInstances[2], 1)>>,
     <<referenceTo(EngineInstances[1], 1), referenceTo(EngineInstances[3], 1)>>,
     <<referenceTo(EngineInstances[2], 2), referenceTo(EngineInstances[5], 1)>>,
     <<referenceTo(EngineInstances[2], 1), referenceTo(EngineInstances[1], 1)>>,
     <<referenceTo(EngineInstances[1], 1), referenceTo(EngineInstances[4], 1)>>,
     <<[referenceTo(EngineInstances[1], 1) EXCEPT !.portId = "midi-thru",
                                                  !.portLabel = "MIDI Thru"],
       referenceTo(EngineInstances[2], 1)>>,
     <<referenceTo(EngineInstances[3], 2), referenceTo(EngineInstances[5], 1)>>,
     <<referenceTo(EngineInstances[4], 2), referenceTo(EngineInstances[5], 1)>> >>

NumLinks == 6

MaxConnections == 2

\* The status and issues a declared connection arrives with: as
\* handlePortSelection makes it, or as an earlier evaluation left it.
ArrivingStates ==
  { [status |-> "pending"],
    [status |-> "valid"],
    [status |-> "invalid", issues |-> <<"Source device is no longer available.">>] }

declaredConnection(link, arriving) ==
  [key \in {"id", "from", "to"} |-> newConnection(link[1], link[2])[key]] @@ arriving

\* the lists of at most MaxConnections declared connections, all arriving
\* in the same state; a link may be declared more than once
DeclaredLists ==
  UNION { [1..n -> { declaredConnection(EngineLinks[k], arriving) :
                       k \in 1..Min(NumLinks, Len(EngineLinks)) }] :
            n \in 0..MaxConnections, arriving \in ArrivingStates }

\* the placed instances with the one numbered removed taken out (0: none)
instancesWithout(removed) ==
  SelectSeq(EngineInstances, LAMBDA instance : removed = 0
                                \/ instance # EngineInstances[removed])

\* the options argument: left out, or naming clock masters of every kind
EngineOptions ==
  { [clockMasterIds |-> masters] :
      masters \in { <<>>, <<"keystep-1">>, <<"hs5-1">>, <<"volca-1", "keystep-1">>,
                    <<"removed-7">> } }

InitEngine ==
  /\ \E removed \in 0..Len(EngineInstances) : workspaceDevices = instancesWithout(removed)
  /\ connections \in DeclaredLists
  /\ selectedPort = Null
  /\ options \in EngineOptions
  /\ inference = Null

\* the caller passes the connections an evaluation returned in again
FeedBack ==
  /\ inference # Null
  /\ connections # inference.connections
  /\ LET call == engineCall(workspaceDevices, inference.connections, options)
     IN  /\ inference' = call.result
         /\ workspaceDevices' = call.deviceInstances
         /\ connections' = call.connections
         /\ options' = call.options
  /\ UNCHANGED selectedPort

NextEngine == Evaluate \/ FeedBack

SpecEngine == InitEngine /\ [][NextEngine]_vars

----------------------------------------------------------------------------
(* The engine applied to a studio: any choice of placed instances, routes  *)
(* of MIDI, USB and audio between them, and every kind of clock-master set *)

Monologue ==
  mkDevice("monologue", "Monologue", "Synthesizer", <<>>,
           << mkPort("midi-in", "MIDI In", "in", "din_5", <<"midi">>,
                     Undefined, Undefined, Undefined),
              mkPort("audio-in", "Audio In", "in", "ts_6.35mm", <<"audio">>,
                     Undefined, "unbalanced_mono", Undefined),
              mkPort("output", "Output", "out", "ts_6.35mm", <<"audio">>,
                     Undefined, "unbalanced_mono", Undefined),
              mkPort("usb", "USB", "in_out", "usb_b", <<"usb_midi">>,
                     Undefined, Undefined, Undefined),
              mkPort("midi-out", "MIDI Out", "out", "din_5", <<"midi">>,
                     Undefined, Undefined, Undefined) >>)

Launchpad ==
  mkDevice("launchpad", "Launchpad", "Sequencer", <<>>,
           << mkPort("usb", "USB", "in_out", "usb_b", <<"usb_midi">>,
                     Undefined, Undefined, Undefined) >>)

\* the instances a studio is chosen from; the Volca is there twice
StudioInstances ==
  << mkInstance("keystep-1", Keystep), mkInstance("volca-1", Volca),
     mkInstance("monologue-1", Monologue), mkInstance("launchpad-1", Launchpad),
     mkInstance("volca-2", Volca), mkInstance("hs5-1", StudioMonitor) >>

\* The routes the declared connections are drawn from: MIDI from the
\* sequencer, a synth's audio into another synth, USB MIDI, audio into the
\* monitor, MIDI declared against the direction of the ports, and a synth's
\* MIDI output looped into its own input.  The first NumRoutes of them are used.
StudioRoutes ==
  << <<referenceTo(StudioInstances[1], 1), referenceTo(StudioInstances[2], 1)>>,
     <<referenceTo(StudioInstances[1], 1), referenceTo(StudioInstances[3], 1)>>,
     <<referenceTo(StudioInstances[2], 2), referenceTo(StudioInstances[3], 2)>>,
     <<referenceTo(StudioInstances[4], 1), referenceTo(StudioInstances[3], 4)>>,
     <<referenceTo(StudioInstances[3], 3), referenceTo(StudioInstances[6], 1)>>,
     <<referenceTo(StudioInstances[2], 1), referenceTo(StudioInstances[1], 1)>>,
     <<referenceTo(StudioInstances[3], 5), referenceTo(StudioInstances[3], 1)>>,
     <<referenceTo(StudioInstances[1], 1), referenceTo(StudioInstances[5], 1)>>,
     <<referenceTo(StudioInstances[5], 2), referenceTo(StudioInstances[6], 1)>> >>

NumRoutes == 7

MaxRouted == 2

\* the options argument: left out, or a set of clock masters
StudioOptions ==
  { [clockMasterIds |-> masters] :
      masters \in { <<>>, <<"keystep-1">>, <<"hs5-1">>, <<"volca-1", "keystep-1">>,
                    <<"launchpad-1">>, <<"volca-2", "volca-1">> } }
  \cup { [key \in {} |-> <<>>] }

InitStudio ==
  /\ \E placed \in SUBSET {StudioInstances[k].instanceId : k \in DOMAIN StudioInstances} :
       workspaceDevices
         = SelectSeq(StudioInstances, LAMBDA instance : instance.instanceId \in placed)
  /\ \E n \in 0..MaxRouted :
       connections \in [1..n -> { newConnection(StudioRoutes[k][1], StudioRoutes[k][2]) :
                                    k \in 1..Min(NumRoutes, Len(StudioRoutes)) }]
  /\ selectedPort = Null
  /\ options \in StudioOptions
  /\ inference = Null

NextStudio == Evaluate

SpecStudio == InitStudio /\ [][NextStudio]_vars

----------------------------------------------------------------------------
(* The engine applied to an audio rig, for the audio graph of App.tsx:     *)
(* sources, a mixer with a two-way bus, an effects loop, a monitor, a      *)
(* device that plays no test tone, and USB ports as a custom device has    *)

\* the instances of the rig
RigInstances ==
  << mkInstance("synth-1",
       mkDevice("synth", "Synth", "Synthesizer", <<>>,
                << mkPort("out", "Out", "out", "ts_6.35mm", <<"audio">>,
                          Undefined, Undefined, Undefined),
                   mkPort("usb", "USB", "in_out", "usb_b", <<"usb_midi", "audio">>,
                          Undefined, Undefined, Undefined),
                   mkPort("midi", "MIDI Out", "out", "din_5", <<"midi">>,
                          Undefined, Undefined, Undefined) >>)),
     mkInstance("mixer-1",
       mkDevice("mixer", "Mixer", "Audio Interface", <<>>,
                << mkPort("in", "In", "in", "ts_6.35mm", <<"audio">>,
                          Undefined, Undefined, Undefined),
                   mkPort("bus", "Bus", "in_out", "ts_6.35mm", <<"audio">>,
                          Undefined, Undefined, Undefined),
                   mkPort("main", "Main", "out", "ts_6.35mm", <<"audio">>,
                          Undefined, Undefined, Undefined) >>)),
     mkInstance("fx-1",
       mkDevice("fx", "Effects", "Synthesizer", <<>>,
                << mkPort("send", "Send", "in_out", "ts_6.35mm", <<"audio">>,
                          Undefined, Undefined, Undefined),
                   mkPort("midi", "MIDI In", "in", "din_5", <<"midi">>,
                          Undefined, Undefined, Undefined) >>)),
     mkInstance("hs5-1", StudioMonitor),
     mkInstance("click-1",
       mkDevice("click", "Click", "Sequencer", <<"no_test_sound">>,
                << mkPort("out", "Out", "out", "ts_6.35mm", <<"audio">>,
                          Undefined, Undefined, Undefined) >>)),
     mkInstance("laptop-1",
       mkDevice("laptop", "Laptop", "Audio Interface", <<>>,
                << mkPort("usb", "USB", "in_out", "usb_b", <<"usb_midi", "usb_audio">>,
                          Undefined, Undefined, Undefined) >>)) >>

\* The wires the declared connections are drawn from.  The first NumWires
\* of them are used.
RigWires ==
  << <<referenceTo(RigInstances[1], 1), referenceTo(RigInstances[2], 1)>>,
     <<referenceTo(RigInstances[2], 3), referenceTo(RigInstances[4], 1)>>,
     <<referenceTo(RigInstances[2], 2), referenceTo(RigInstances[3], 1)>>,
     <<referenceTo(RigInstances[3], 1), referenceTo(RigInstances[4], 1)>>,
     <<referenceTo(RigInstances[2], 1), referenceTo(RigInstances[1], 1)>>,
     <<referenceTo(RigInstances[1], 2), referenceTo(RigInstances[6], 1)>>,
     <<referenceTo(RigInstances[5], 1), referenceTo(RigInstances[2], 1)>>,
     <<referenceTo(RigInstances[1], 3), referenceTo(RigInstances[3], 2)>>,
     <<referenceTo(RigInstances[1], 1), referenceTo(RigInstances[4], 1)>>,
     <<referenceTo(RigInstances[5], 1), referenceTo(RigInstances[4], 1)>> >>

NumWires == 9

MaxWired == 3

InitRig ==
  /\ \E removed \in 0..Len(RigInstances) :
       workspaceDevices
         = SelectSeq(RigInstances,
                     LAMBDA instance : removed = 0 \/ instance # RigInstances[removed])
  /\ \E n \in 0..MaxWired :
       connections \in [1..n -> { newConnection(RigWires[k][1], RigWires[k][2]) :
                                    k \in 1..Min(NumWires, Len(RigWires)) }]
  /\ selectedPort = Null
  /\ options = [clockMasterIds |-> <<>>]
  /\ inference = Null

NextRig == Evaluate

SpecRig == InitRig /\ [][NextRig]_vars

----------------------------------------------------------------------------
(* utils/recommendations.ts: what cable joins two devices of the library   *)

\* lines 9-18
isOutput(port) == port.direction \in {"out", "in_out"}

isInput(port) == port.direction \in {"in", "in_out"}

\* the slip that C26 is checked against: the ports of the target not tested
buildConnectionsToAnyPort(source, target, sourceInstanceId, targetInstanceId) ==
  LET pairs == [k \in 1..(Len(source.ports) * Len(target.ports)) |->
                  <<source.ports[((k - 1) \div Len(target.ports)) + 1],
                    target.ports[((k - 1) % Len(target.ports)) + 1]>>]
      kept == SelectSeq(pairs, LAMBDA pair : isOutput(pair[1]))
  IN  [k \in DOMAIN kept |->
         [id |-> sourceInstanceId \o ":" \o kept[k][1].id \o "->"
                   \o targetInstanceId \o ":" \o kept[k][2].id,
          from |-> portReference(sourceInstanceId, source, kept[k][1]),
          to |-> portReference(targetInstanceId, target, kept[k][2]),
          status |-> "pending"]]

\* lines 20-60: the two nested forEach loops visit the pairs of ports in
\* row-major order
buildConnections(source, target, sourceInstanceId, targetInstanceId) ==
  LET pairs == [k \in 1..(Len(source.ports) * Len(target.ports)) |->
                  <<source.ports[((k - 1) \div Len(target.ports)) + 1],
                    target.ports[((k - 1) % Len(target.ports)) + 1]>>]
      kept == SelectSeq(pairs, LAMBDA pair : isOutput(pair[1]) /\ isInput(pair[2]))
  IN  [k \in DOMAIN kept |->
         [id |-> sourceInstanceId \o ":" \o kept[k][1].id \o "->"
                   \o targetInstanceId \o ":" \o kept[k][2].id,
          from |-> portReference(sourceInstanceId, source, kept[k][1]),
          to |-> portReference(targetInstanceId, target, kept[k][2]),
          status |-> "pending"]]

\* lines 64-65: the instance a device is evaluated as
syntheticInstance(device) == mkInstance("device-" \o device.id, device)

\* lines 67-70
syntheticConnections(deviceA, deviceB) ==
  buildConnections(deviceA, deviceB,
                   syntheticInstance(deviceA).instanceId, syntheticInstance(deviceB).instanceId)
  \o buildConnections(deviceB, deviceA,
                      syntheticInstance(deviceB).instanceId, syntheticInstance(deviceA).instanceId)

\* String.prototype.localeCompare (line 94) in the root collation, for the
\* characters the phrases are written with: white space sorts before
\* punctuation, punctuation before symbols, symbols before digits, digits
\* before letters; the case of a letter counts only between strings that are
\* otherwise equal, and then the lower case sorts first.
CollationOrder == " -,:.()/+→0123456789abcdefghijklmnopqrstuvwxyz"

UpperCaseLetters == "ABCDEFGHIJKLMNOPQRSTUVWXYZ"

LowerCaseLetters == "abcdefghijklmnopqrstuvwxyz"

IndexIn(text, char) ==
  IF \E i \in 1..Len(text) : SubSeq(text, i, i) = char
    THEN CHOOSE i \in 1..Len(text) : SubSeq(text, i, i) = char
    ELSE 0

isUpperCase(char) == IndexIn(UpperCaseLetters, char) > 0

foldCase(char) ==
  IF isUpperCase(char)
    THEN SubSeq(LowerCaseLetters, IndexIn(UpperCaseLetters, char), IndexIn(UpperCaseLetters, char))
    ELSE char

primaryWeight(char) == IndexIn(CollationOrder, foldCase(char))

RECURSIVE comparePrimary(_, _)
comparePrimary(a, b) ==
  IF a = "" /\ b = "" THEN 0
  ELSE IF a = "" THEN -1
  ELSE IF b = "" THEN 1
  ELSE IF primaryWeight(Head(a)) < primaryWeight(Head(b)) THEN -1
  ELSE IF primaryWeight(Head(a)) > primaryWeight(Head(b)) THEN 1
  ELSE comparePrimary(Tail(a), Tail(b))

\* two strings with equal primary weights have the same length
RECURSIVE compareCase(_, _)
compareCase(a, b) ==
  IF a = "" \/ b = "" THEN 0
  ELSE IF ~isUpperCase(Head(a)) /\ isUpperCase(Head(b)) THEN -1
  ELSE IF isUpperCase(Head(a)) /\ ~isUpperCase(Head(b)) THEN 1
  ELSE compareCase(Tail(a), Tail(b))

localeCompare(a, b) ==
  IF comparePrimary(a, b) # 0 THEN comparePrimary(a, b) ELSE compareCase(a, b)

\* Array.prototype.sort with the comparator of line 94: a stable sort
RECURSIVE insertSorted(_, _)
insertSorted(sorted, item) ==
  IF sorted = <<>> THEN <<item>>
  ELSE IF localeCompare(item, Head(sorted)) < 0 THEN <<item>> \o sorted
  ELSE <<Head(sorted)>> \o insertSorted(Tail(sorted), item)

RECURSIVE sortByLocale(_)
sortByLocale(items) ==
  IF items = <<>> THEN <<>>
  ELSE insertSorted(sortByLocale(SubSeq(items, 1, Len(items) - 1)), items[Len(items)])

\* lines 80-85: the phrase of one cable suggestion
recommendationOf(cable) ==
  Coalesce(cable.ports[1].deviceName, cable.ports[1].deviceId)
    \o " → "
    \o Coalesce(cable.ports[2].deviceName, cable.ports[2].deviceId)
    \o ": Use "
    \o cable.description

\* the slip that C27 is checked against: the phrases returned in the order
\* they were collected
recommendationsFromUnsorted(result) ==
  LET phrases == SetAddAll(<<>>, [k \in DOMAIN result.requiredCables |->
                                    recommendationOf(result.requiredCables[k])])
  IN  IF Len(phrases) = 0
        THEN SetAddAll(<<>>, SelectSeq(result.summaries, LAMBDA summary : summary # ""))
        ELSE phrases

\* lines 78-94: from the engine's result to the list returned
recommendationsFrom(result) ==
  LET phrases == SetAddAll(<<>>, [k \in DOMAIN result.requiredCables |->
                                    recommendationOf(result.requiredCables[k])])
  IN  sortByLocale(IF Len(phrases) = 0
                     THEN SetAddAll(<<>>, SelectSeq(result.summaries,
                                                    LAMBDA summary : summary # ""))
                     ELSE phrases)

\* lines 63-95; the engine is called without options
recommendBetweenDevices(deviceA, deviceB) ==
  IF Len(syntheticConnections(deviceA, deviceB)) = 0 THEN <<>>
  ELSE recommendationsFrom(
         inferConnections(<<syntheticInstance(deviceA), syntheticInstance(deviceB)>>,
                          syntheticConnections(deviceA, deviceB),
                          [key \in {} |-> <<>>]))

\* a synth whose name starts in lower case, with an audio input
MicroKorg ==
  mkDevice("microkorg", "microKORG", "Synthesizer", <<>>,
           << mkPort("out", "Out", "out", "ts_6.35mm", <<"audio">>,
                     Undefined, Undefined, Undefined),
              mkPort("in", "Audio In", "in", "ts_6.35mm", <<"audio">>,
                     Undefined, Undefined, Undefined),
              mkPort("midi-in", "MIDI In", "in", "din_5", <<"midi">>,
                     Undefined, Undefined, Undefined) >>)

\* the devices recommendations are asked between: the first NumPaired
PairedDevices ==
  << MicroKorg, RigInstances[2].device, RigInstances[1].device, RigInstances[6].device,
     Keystep, Digitakt, StudioMonitor, Monologue, RigInstances[3].device,
     Volca, Launchpad, RigInstances[5].device >>

NumPaired == 11

\* App lines 161-175 ask for every pair of placed devices, two instances of one
\* device included; the pair is held as the two synthetic instances
InitPair ==
  /\ \E a \in 1..Min(NumPaired, Len(PairedDevices)), b \in 1..Min(NumPaired, Len(PairedDevices)) :
       workspaceDevices = <<syntheticInstance(PairedDevices[a]),
                            syntheticInstance(PairedDevices[b])>>
  /\ connections = <<>>
  /\ selectedPort = Null
  /\ options = [key \in {} |-> <<>>]
  /\ inference = Null

\* recommendBetweenDevices applied to the pair: the connections it built, the
\* engine's result when the engine was called, and the list returned
Recommend ==
  /\ inference = Null
  /\ connections' = syntheticConnections(workspaceDevices[1].device, workspaceDevices[2].device)
  /\ inference' =
       [recommendations |-> recommendBetweenDevices(workspaceDevices[1].device,
                                                    workspaceDevices[2].device)]
       @@ (IF Len(connections') = 0 THEN [key \in {} |-> <<>>]
           ELSE inferConnections(workspaceDevices, connections', options))
  /\ UNCHANGED <<workspaceDevices, selectedPort, options>>

NextPair == Recommend

SpecPair == InitPair /\ [][NextPair]_vars

----------------------------------------------------------------------------
(* App.tsx: the workspace                                                  *)

\* the device library; the first NumLibrary devices are offered
LibraryDevices == <<Keystep, Digitakt, StudioMonitor, Volca>>

NumLibrary == 2

\* at most MaxPlaced instances are placed, and at most MaxCables connections declared
MaxPlaced == 2

MaxCables == 1

\* Date.now() and Math.random() of addDeviceToWorkspace give one of MaxNonce suffixes
MaxNonce == 2

\* where an instance can be dropped or dragged to, after clampWithinCanvas:
\* the grid columns 0..MaxColumn of one row
MaxColumn == 0

CanvasPositions == { [x |-> column, y |-> 0] : column \in 0..MaxColumn }

deviceSupportsClockMaster(device) ==
  \E i \in DOMAIN device.ports :
    /\ device.ports[i].direction \in {"out", "in_out"}
    /\ includes(device.ports[i].signals, "midi")

\* lines 146-151: the clock-master set the engine is given
clockMasterIdsOf(devices) ==
  SetAddAll(<<>>, instanceIdsOf(SelectSeq(devices, LAMBDA instance : instance.isClockMaster)))

\* lines 145-154: the memoised evaluation, recomputed when the device list
\* or the connection list is replaced
Render(devices, declared) ==
  LET call == engineCall(devices, declared, [clockMasterIds |-> clockMasterIdsOf(devices)])
  IN  /\ inference' = call.result
      /\ workspaceDevices' = call.deviceInstances
      /\ connections' = call.connections
      /\ options' = call.options

\* the result of evaluating an empty workspace
emptyInference ==
  [connections |-> <<>>, warnings |-> <<>>, requiredCables |-> <<>>, summaries |-> <<>>]

Init ==
  /\ workspaceDevices = <<>>
  /\ connections = <<>>
  /\ selectedPort = Null
  /\ options = [clockMasterIds |-> <<>>]
  /\ inference = emptyInference

addDeviceToWorkspace(device, position, nonce) ==
  /\ Len(workspaceDevices) < MaxPlaced
  /\ Render(Append(workspaceDevices,
                   mkInstance(device.id \o "-" \o ToString(nonce), device)
                     @@ [position |-> position]),
            connections)
  /\ UNCHANGED selectedPort

\* the slip that C29 is checked against: the reversed pair not recognised
alreadyConnectedForwardOnly(instanceId, port) ==
  \E i \in DOMAIN connections :
    /\ connections[i].from.instanceId = selectedPort.instanceId
    /\ connections[i].from.portId = selectedPort.portId
    /\ connections[i].to.instanceId = instanceId
    /\ connections[i].to.portId = port.id

\* lines 710-721
alreadyConnected(instanceId, port) ==
  \E i \in DOMAIN connections :
    \/ /\ connections[i].from.instanceId = selectedPort.instanceId
       /\ connections[i].from.portId = selectedPort.portId
       /\ connections[i].to.instanceId = instanceId
       /\ connections[i].to.portId = port.id
    \/ /\ connections[i].to.instanceId = selectedPort.instanceId
       /\ connections[i].to.portId = selectedPort.portId
       /\ connections[i].from.instanceId = instanceId
       /\ connections[i].from.portId = port.id

handlePortSelection(instanceId, device, port) ==
  IF selectedPort = Null
    THEN /\ selectedPort' = portReference(instanceId, device, port)
         /\ UNCHANGED <<workspaceDevices, connections, options, inference>>
  ELSE IF selectedPort.instanceId = instanceId /\ selectedPort.portId = port.id
    THEN /\ selectedPort' = Null
         /\ UNCHANGED <<workspaceDevices, connections, options, inference>>
  ELSE IF alreadyConnected(instanceId, port)
    THEN /\ selectedPort' = Null
         /\ UNCHANGED <<workspaceDevices, connections, options, inference>>
  ELSE /\ Render(workspaceDevices,
                 Append(connections,
                        newConnection(selectedPort, portReference(instanceId, device, port))))
       /\ selectedPort' = Null

\* prev.find((item) => item.instanceId === instanceId): the index of the
\* first instance of that id, 0 when there is none
findInstance(instanceId) ==
  IF \E i \in DOMAIN workspaceDevices : workspaceDevices[i].instanceId = instanceId
    THEN CHOOSE i \in DOMAIN workspaceDevices :
           /\ workspaceDevices[i].instanceId = instanceId
           /\ \A j \in 1..(i - 1) : workspaceDevices[j].instanceId # instanceId
    ELSE 0

\* prev.findIndex((item) => item.id === connectionId), 0 for -1
findConnection(connectionId) ==
  IF \E i \in DOMAIN connections : connections[i].id = connectionId
    THEN CHOOSE i \in DOMAIN connections :
           /\ connections[i].id = connectionId
           /\ \A j \in 1..(i - 1) : connections[j].id # connectionId
    ELSE 0

\* lines 759-767: the flags after the target is toggled
toggledDevices(instanceId, nextIsMaster) ==
  [i \in DOMAIN workspaceDevices |->
     IF workspaceDevices[i].instanceId = instanceId
       THEN [workspaceDevices[i] EXCEPT !.isClockMaster = nextIsMaster]
     ELSE IF nextIsMaster /\ workspaceDevices[i].isClockMaster
       THEN [workspaceDevices[i] EXCEPT !.isClockMaster = FALSE]
     ELSE workspaceDevices[i]]

handleToggleClockMaster(instanceId) ==
  LET target == findInstance(instanceId)
  IN  IF target = 0 THEN UNCHANGED vars
      ELSE IF ~deviceSupportsClockMaster(workspaceDevices[target].device) THEN UNCHANGED vars
      ELSE /\ Render(toggledDevices(instanceId, ~workspaceDevices[target].isClockMaster),
                     connections)
           /\ UNCHANGED selectedPort

isSameConnection(a, b) ==
  \/ /\ a.from.instanceId = b.from.instanceId /\ a.from.portId = b.from.portId
     /\ a.to.instanceId = b.to.instanceId /\ a.to.portId = b.to.portId
  \/ /\ a.from.instanceId = b.to.instanceId /\ a.from.portId = b.to.portId
     /\ a.to.instanceId = b.from.instanceId /\ a.to.portId = b.from.portId

\* lines 797-804: the connection with one end moved and its id rebuilt
reassigned(existing, end, port) ==
  [existing EXCEPT ![end] = port,
                   !.id = connectionIdOf(IF end = "from" THEN port ELSE existing.from,
                                         IF end = "to" THEN port ELSE existing.to)]

handleReassignConnection(connectionId, end, port) ==
  LET existingIndex == findConnection(connectionId)
  IN  IF existingIndex = 0 THEN UNCHANGED vars
      ELSE IF \E index \in DOMAIN connections :
                /\ index # existingIndex
                /\ isSameConnection(connections[index],
                                    reassigned(connections[existingIndex], end, port))
        THEN UNCHANGED vars
      ELSE /\ Render(workspaceDevices,
                     [connections EXCEPT
                        ![existingIndex] = reassigned(connections[existingIndex], end, port)])
           /\ UNCHANGED selectedPort

handleRemoveConnection(connectionId) ==
  /\ Render(workspaceDevices,
            SelectSeq(connections, LAMBDA connection : connection.id # connectionId))
  /\ UNCHANGED selectedPort

\* the slip that C28 is checked against: only the connections that leave the
\* removed instance dropped
handleRemoveDeviceKeepingIncoming(instanceId) ==
  /\ Render(SelectSeq(workspaceDevices, LAMBDA item : item.instanceId # instanceId),
            SelectSeq(connections,
                      LAMBDA connection : connection.from.instanceId # instanceId))
  /\ selectedPort' = IF selectedPort # Null /\ selectedPort.instanceId = instanceId
                       THEN Null ELSE selectedPort

\* lines 826-847
handleRemoveDevice(instanceId) ==
  /\ Render(SelectSeq(workspaceDevices, LAMBDA item : item.instanceId # instanceId),
            SelectSeq(connections,
                      LAMBDA connection : /\ connection.from.instanceId # instanceId
                                          /\ connection.to.instanceId # instanceId))
  /\ selectedPort' = IF selectedPort # Null /\ selectedPort.instanceId = instanceId
                       THEN Null ELSE selectedPort

\* lines 1054-1062: an instance dragged to a new place
updatePosition(instanceId, newPos) ==
  /\ Render([i \in DOMAIN workspaceDevices |->
               IF workspaceDevices[i].instanceId = instanceId
                 THEN [workspaceDevices[i] EXCEPT !.position = newPos]
                 ELSE workspaceDevices[i]],
            connections)
  /\ UNCHANGED selectedPort

\* App.positionedPorts: the ports a cable end can be dropped on
positionedPorts ==
  UNION { { portReference(workspaceDevices[i].instanceId, workspaceDevices[i].device,
                          workspaceDevices[i].device.ports[p])
            @@ [direction |-> workspaceDevices[i].device.ports[p].direction,
                position |-> workspaceDevices[i].position,
                signals |-> workspaceDevices[i].device.ports[p].signals] :
              p \in DOMAIN workspaceDevices[i].device.ports } :
          i \in DOMAIN workspaceDevices }

\* CableLayer.getEligiblePort: the ports the dragged end of a connection snaps to
eligiblePorts(end, connection) ==
  { port \in positionedPorts :
      /\ ~(/\ port.instanceId = (IF end = "from" THEN connection.to ELSE connection.from).instanceId
           /\ port.portId = (IF end = "from" THEN connection.to ELSE connection.from).portId)
      /\ end = "from" => port.direction \in {"out", "in_out"}
      /\ end = "to" => port.direction \in {"in", "in_out"} }

Next ==
  \/ \E k \in 1..Min(NumLibrary, Len(LibraryDevices)), position \in CanvasPositions,
         nonce \in 1..MaxNonce :
       addDeviceToWorkspace(LibraryDevices[k], position, nonce)
  \/ \E i \in DOMAIN workspaceDevices :
       \E p \in DOMAIN workspaceDevices[i].device.ports :
         /\ handlePortSelection(workspaceDevices[i].instanceId, workspaceDevices[i].device,
                                workspaceDevices[i].device.ports[p])
         /\ Len(connections') <= MaxCables
  \/ \E i \in DOMAIN workspaceDevices : handleToggleClockMaster(workspaceDevices[i].instanceId)
  \/ \E i \in DOMAIN connections, end \in {"from", "to"} :
       \E port \in eligiblePorts(end, connections[findConnection(connections[i].id)]) :
         handleReassignConnection(connections[i].id, end, port)
  \/ \E i \in DOMAIN connections : handleRemoveConnection(connections[i].id)
  \/ \E i \in DOMAIN workspaceDevices : handleRemoveDevice(workspaceDevices[i].instanceId)
  \/ \E i \in DOMAIN workspaceDevices, newPos \in CanvasPositions :
       updatePosition(workspaceDevices[i].instanceId, newPos)

Spec == Init /\ [][Next]_vars

\* The cables of a workspace that stays as it is: two instances are placed,
\* and ports are clicked and cable ends dragged; at most MaxJoined connections
\* are declared
MaxJoined == 2

CabledWorkspaces ==
  { << mkInstance("keystep-1", Keystep) @@ [position |-> [x |-> 0, y |-> 0]],
       mkInstance("digitakt-1", Digitakt) @@ [position |-> [x |-> 0, y |-> 0]] >>,
    << mkInstance("launchpad-1", Launchpad) @@ [position |-> [x |-> 0, y |-> 0]],
       mkInstance("launchpad-2", Launchpad) @@ [position |-> [x |-> 0, y |-> 0]] >> }

InitCables ==
  /\ workspaceDevices \in CabledWorkspaces
  /\ connections = <<>>
  /\ selectedPort = Null
  /\ options = [clockMasterIds |-> <<>>]
  /\ inference = inferConnections(workspaceDevices, connections, options)

NextCables ==
  \/ \E i \in DOMAIN workspaceDevices :
       \E p \in DOMAIN workspaceDevices[i].device.ports :
         /\ handlePortSelection(workspaceDevices[i].instanceId, workspaceDevices[i].device,
                                workspaceDevices[i].device.ports[p])
         /\ Len(connections') <= MaxJoined
  \/ \E i \in DOMAIN connections, end \in {"from", "to"} :
       \E port \in eligiblePorts(end, connections[findConnection(connections[i].id)]) :
         handleReassignConnection(connections[i].id, end, port)
  \/ \E i \in DOMAIN connections : handleRemoveConnection(connections[i].id)

SpecCables == InitCables /\ [][NextCables]_vars

----------------------------------------------------------------------------
(* App.tsx: the audio graph over the evaluated connections and the search  *)
(* for a monitor that gates the test tone                                  *)

hasAudioSignal(port) ==
  \E i \in DOMAIN port.signals : port.signals[i] \in {"audio", "usb_audio"}

\* the slip that C24 is checked against: every contributing connection
\* taken as a two-way link
audioEdgesOfBothWays(connection, deviceMap) ==
  LET fromPort == findPort(mapGet(deviceMap, connection.from.instanceId), connection.from.portId)
      toPort == findPort(mapGet(deviceMap, connection.to.instanceId), connection.to.portId)
  IN  IF connection.status = "invalid" THEN <<>>
      ELSE IF ~IsSome(fromPort) \/ ~IsSome(toPort) THEN <<>>
      ELSE IF ~hasAudioSignal(fromPort.value) \/ ~hasAudioSignal(toPort.value) THEN <<>>
      ELSE <<[from |-> connection.from.instanceId,
              neighbor |-> connection.to.instanceId,
              connectionId |-> connection.id],
             [from |-> connection.to.instanceId,
              neighbor |-> connection.from.instanceId,
              connectionId |-> connection.id]>>

\* lines 214-253: the edges one evaluated connection adds to the adjacency map
audioEdgesOf(connection, deviceMap) ==
  LET fromPort == findPort(mapGet(deviceMap, connection.from.instanceId), connection.from.portId)
      toPort == findPort(mapGet(deviceMap, connection.to.instanceId), connection.to.portId)
  IN  IF connection.status = "invalid" THEN <<>>
      ELSE IF ~IsSome(fromPort) \/ ~IsSome(toPort) THEN <<>>
      ELSE IF ~hasAudioSignal(fromPort.value) \/ ~hasAudioSignal(toPort.value) THEN <<>>
      ELSE (IF fromPort.value.direction \in {"out", "in_out"}
               /\ toPort.value.direction \in {"in", "in_out"}
              THEN <<[from |-> connection.from.instanceId,
                      neighbor |-> connection.to.instanceId,
                      connectionId |-> connection.id]>>
              ELSE <<>>)
           \o
           (IF toPort.value.direction \in {"out", "in_out"}
               /\ fromPort.value.direction \in {"in", "in_out"}
              THEN <<[from |-> connection.to.instanceId,
                      neighbor |-> connection.from.instanceId,
                      connectionId |-> connection.id]>>
              ELSE <<>>)

\* lines 204-256: the adjacency map, as its edges in insertion order
RECURSIVE audioGraph(_, _)
audioGraph(evaluated, deviceMap) ==
  IF evaluated = <<>> THEN <<>>
  ELSE audioEdgesOf(Head(evaluated), deviceMap) \o audioGraph(Tail(evaluated), deviceMap)

\* audioGraph.get(current), the neighbours only
neighborsOf(graph, current) ==
  LET entries == SelectSeq(graph, LAMBDA edge : edge.from = current)
  IN  [k \in DOMAIN entries |-> entries[k].neighbor]

\* lines 315-336: the breadth-first search of canPlayTestSound
RECURSIVE searchForMonitor(_, _, _, _, _)
searchForMonitor(queue, visited, instanceId, graph, monitorInstanceIds) ==
  IF queue = <<>> THEN FALSE
  ELSE IF Head(queue) # instanceId /\ includes(monitorInstanceIds, Head(queue)) THEN TRUE
  ELSE searchForMonitor(
         Tail(queue)
           \o SelectSeq(SetAddAll(<<>>, neighborsOf(graph, Head(queue))),
                        LAMBDA neighbor : ~includes(visited, neighbor)),
         SetAddAll(visited, neighborsOf(graph, Head(queue))),
         instanceId, graph, monitorInstanceIds)

\* the slip that C25 is checked against: the 'no_test_sound' tag not consulted
canPlayTestSoundIgnoringTag(instanceId, devices, evaluated) ==
  IF instanceId \notin DOMAIN deviceMapOf(devices) THEN FALSE
  ELSE IF ~\E p \in DOMAIN deviceMapOf(devices)[instanceId].ports :
             /\ deviceMapOf(devices)[instanceId].ports[p].direction \in {"out", "in_out"}
             /\ hasAudioSignal(deviceMapOf(devices)[instanceId].ports[p])
    THEN FALSE
  ELSE IF Len(monitorInstancesOf(devices)) = 0 THEN FALSE
  ELSE IF includes(monitorInstancesOf(devices), instanceId) THEN FALSE
  ELSE searchForMonitor(<<instanceId>>, <<instanceId>>, instanceId,
                        audioGraph(evaluated, deviceMapOf(devices)),
                        monitorInstancesOf(devices))

\* lines 286-340; monitorInstanceIds (194-202) is built as the engine builds
\* its monitor set
canPlayTestSound(instanceId, devices, evaluated) ==
  IF instanceId \notin DOMAIN deviceMapOf(devices) THEN FALSE
  ELSE IF includes(deviceMapOf(devices)[instanceId].tags, "no_test_sound") THEN FALSE
  ELSE IF ~\E p \in DOMAIN deviceMapOf(devices)[instanceId].ports :
             /\ deviceMapOf(devices)[instanceId].ports[p].direction \in {"out", "in_out"}
             /\ hasAudioSignal(deviceMapOf(devices)[instanceId].ports[p])
    THEN FALSE
  ELSE IF Len(monitorInstancesOf(devices)) = 0 THEN FALSE
  ELSE IF includes(monitorInstancesOf(devices), instanceId) THEN FALSE
  ELSE searchForMonitor(<<instanceId>>, <<instanceId>>, instanceId,
                        audioGraph(evaluated, deviceMapOf(devices)),
                        monitorInstancesOf(devices))

----------------------------------------------------------------------------
(* What the claims are stated about: the connections the engine was given, *)
(* the ports they name, and the connections, cables and summaries returned *)

Evaluated == inference # Null

DeviceMapNow == deviceMapOf(workspaceDevices)

FromDeviceOf(connection) == mapGet(DeviceMapNow, connection.from.instanceId)
ToDeviceOf(connection) == mapGet(DeviceMapNow, connection.to.instanceId)
FromPortOf(connection) == findPort(FromDeviceOf(connection), connection.from.portId)
ToPortOf(connection) == findPort(ToDeviceOf(connection), connection.to.portId)

BothPortsExist(connection) == IsSome(FromPortOf(connection)) /\ IsSome(ToPortOf(connection))

\* the blocking issues the engine detects for a declared connection
BlockingOf(connection) ==
  blockingIssuesFor(FromDeviceOf(connection), ToDeviceOf(connection),
                    FromPortOf(connection), ToPortOf(connection))

\* the advisory messages the engine detects for a declared connection
AdvisoryOf(connection) ==
  IF isValidConnection(FromPortOf(connection), ToPortOf(connection), BlockingOf(connection))
    THEN advisoryMessagesFor(
           adapterDescriptionOf(getConnectorCompatibility(FromPortOf(connection).value,
                                                          ToPortOf(connection).value)),
           FromPortOf(connection).value, ToPortOf(connection).value)
    ELSE <<>>

IssuesOf(connection) == IF Has(connection, "issues") THEN connection.issues ELSE <<>>

\* the ports of the placed devices
PlacedPorts ==
  UNION { Range(workspaceDevices[i].device.ports) : i \in DOMAIN workspaceDevices }

\* the cable suggestions and their summaries that belong to a declared connection
CableIndexesOf(connection) ==
  { k \in DOMAIN inference.requiredCables :
      inference.requiredCables[k].id = connection.id \o "-cable" }

----------------------------------------------------------------------------
\* C1: every evaluated connection is 'invalid' iff a blocking issue was
\* detected, 'pending' iff none was but an advisory message was, 'valid'
\* otherwise; its issues are the blocking issues followed by the advisory
\* messages in detection order, and the issues field is absent exactly when
\* the status is 'valid'.
C1_StatusFollowsIssues ==
  Evaluated =>
    /\ Len(inference.connections) = Len(connections)
    /\ \A i \in DOMAIN connections :
         LET out == inference.connections[i]
             blocking == BlockingOf(connections[i])
             advisory == AdvisoryOf(connections[i])
         IN  /\ (out.status = "invalid") <=> (Len(blocking) > 0)
             /\ (out.status = "pending") <=> (Len(blocking) = 0 /\ Len(advisory) > 0)
             /\ (out.status = "valid") <=> (Len(blocking) = 0 /\ Len(advisory) = 0)
             /\ Has(out, "issues") <=> (out.status # "valid")
             /\ Has(out, "issues") => out.issues = blocking \o advisory

\* one link is pending with an adapter and a wiring advisory, the other is
\* invalid with two blocking issues
C1_Witness ==
  /\ Evaluated
  /\ \E i, j \in DOMAIN inference.connections :
       /\ inference.connections[i].status = "pending"
       /\ Len(IssuesOf(inference.connections[i])) = 2
       /\ inference.connections[j].status = "invalid"
       /\ Len(IssuesOf(inference.connections[j])) >= 2

\* C2: a connection whose declared source port is input-only, or whose
\* declared destination port is output-only, is 'invalid' whatever the
\* domains, signals and connectors; a two-way port is never the subject of a
\* 'cannot send signals' or 'cannot receive signals' issue.
C2_DirectionBlocks ==
  Evaluated =>
    \A i \in DOMAIN connections :
      LET out == inference.connections[i]
          fromPort == FromPortOf(connections[i])
          toPort == ToPortOf(connections[i])
      IN  /\ (IsSome(fromPort) /\ fromPort.value.direction = "in") => out.status = "invalid"
          /\ (IsSome(toPort) /\ toPort.value.direction = "out") => out.status = "invalid"
          /\ \A port \in PlacedPorts :
               port.direction = "in_out" =>
                 /\ ~includes(IssuesOf(out), port.label \o " cannot send signals (input-only).")
                 /\ ~includes(IssuesOf(out),
                              port.label \o " cannot receive signals (output-only).")

\* an input-only source whose signals, domain and connector all match the
\* destination: the direction issue is the only one
C2_Witness ==
  /\ Evaluated
  /\ \E i \in DOMAIN connections :
       /\ BothPortsExist(connections[i])
       /\ FromPortOf(connections[i]).value.direction = "in"
       /\ ToPortOf(connections[i]).value.direction = "in_out"
       /\ inference.connections[i].status = "invalid"
       /\ IssuesOf(inference.connections[i])
            = <<FromPortOf(connections[i]).value.label \o " cannot send signals (input-only).">>

\* the domain a port resolves to, as the specification words it
ResolvedDomain(port) ==
  IF port.domain \in PortDomain THEN port.domain
  ELSE IF "audio" \in Range(port.signals) THEN "audio"
  ELSE IF "midi" \in Range(port.signals) THEN "midi"
  ELSE Undefined

DomainIssueTexts(fromPort, toPort) ==
  { fromPort.label \o " (" \o toUpperCase(fromDomain) \o ") cannot connect to "
      \o toPort.label \o " (" \o toUpperCase(toDomain) \o ")." :
      fromDomain \in PortDomain, toDomain \in PortDomain }

\* C3: two ports whose domains both resolve, to different values, make the
\* connection 'invalid' even when their signals overlap and their connectors
\* are compatible; when a port resolves no domain the domain rule does not fire.
C3_DomainMismatchBlocks ==
  Evaluated =>
    \A i \in DOMAIN connections :
      BothPortsExist(connections[i]) =>
        LET out == inference.connections[i]
            fromPort == FromPortOf(connections[i]).value
            toPort == ToPortOf(connections[i]).value
            mismatch == /\ ResolvedDomain(fromPort) # Undefined
                        /\ ResolvedDomain(toPort) # Undefined
                        /\ ResolvedDomain(fromPort) # ResolvedDomain(toPort)
        IN  /\ mismatch => out.status = "invalid"
            /\ mismatch <=>
                 (\E text \in DomainIssueTexts(fromPort, toPort) : includes(IssuesOf(out), text))

\* the domains differ although the signals overlap and the connectors match:
\* the domain issue is the only one; audio is inferred from <<midi, audio>>
C3_Witness ==
  /\ Evaluated
  /\ \E i \in DOMAIN connections :
       /\ BothPortsExist(connections[i])
       /\ FromPortOf(connections[i]).value.signals = <<"midi", "audio">>
       /\ FromPortOf(connections[i]).value.domain = Undefined
       /\ ToPortOf(connections[i]).value.signals = <<"midi", "audio">>
       /\ ToPortOf(connections[i]).value.domain = "midi"
       /\ inference.connections[i].status = "invalid"
       /\ IssuesOf(inference.connections[i]) = <<"Jack A (AUDIO) cannot connect to Jack B (MIDI).">>

\* the adapter codes of a verdict, none when the field is absent
AdapterCodesOf(connectorCompatibility) ==
  IF Has(connectorCompatibility, "adapterCodes")
    THEN Some(connectorCompatibility.adapterCodes) ELSE None

\* the two ports of a link network
PortA == workspaceDevices[1].device.ports[1]
PortB == workspaceDevices[2].device.ports[1]

\* C4: getConnectorCompatibility(P, Q) and getConnectorCompatibility(Q, P)
\* give the same compatible verdict and the same adapter-code list, for every
\* pair of connector codes and physicalConnector overrides.
C4_CompatibilitySymmetric ==
  Evaluated =>
    /\ getConnectorCompatibility(PortA, PortB).compatible
         = getConnectorCompatibility(PortB, PortA).compatible
    /\ AdapterCodesOf(getConnectorCompatibility(PortA, PortB))
         = AdapterCodesOf(getConnectorCompatibility(PortB, PortA))
    /\ (inference.connections[1].status = "invalid")
         <=> (inference.connections[2].status = "invalid")

\* an adapter pair in the orientation the matrix does not list: both
\* orientations ask for the same adapter and resolve to different connectors
C4_Witness ==
  /\ Evaluated
  /\ getPhysicalConnector(PortA) = "din5"
  /\ getPhysicalConnector(PortB) = "trs-midi"
  /\ Len(inference.requiredCables) = 2
  /\ inference.requiredCables[1].adapters = <<"trs-midi-to-din5">>
  /\ inference.requiredCables[2].adapters = <<"trs-midi-to-din5">>
  /\ inference.requiredCables[1].connector # inference.requiredCables[2].connector

\* the legacy codes and the canonical code each stands for
LegacyForms ==
  { <<"din_5", "din5">>, <<"trs_3.5mm", "3.5mm-trs">>, <<"ts_6.35mm", "6.35mm-ts">>,
    <<"trs_6.35mm", "6.35mm-trs">> }

\* every 'Use <adapter>' advisory the adapter matrix can give rise to
UseAdvisories ==
  { "Use " \o formatAdapterChain(ADAPTER_MATRIX[key]) : key \in DOMAIN ADAPTER_MATRIX }

\* C5: the physical family of a port is its physicalConnector override when
\* it has one, so a legacy code and its canonical form resolve to the same
\* family; two ports of the same family are compatible with no adapter codes
\* and their connection gets no 'Use <adapter>' advisory.
C5_SameFamilyNeedsNoAdapter ==
  Evaluated =>
    /\ \A port \in {PortA, PortB} :
         /\ port.physicalConnector # Undefined
              => getPhysicalConnector(port) = port.physicalConnector
         /\ (port.physicalConnector = Undefined /\ port.connector \in PhysicalConnector)
              => getPhysicalConnector(port) = port.connector
    /\ ( /\ PortA.physicalConnector = Undefined /\ PortB.physicalConnector = Undefined
         /\ (<<PortA.connector, PortB.connector>> \in LegacyForms
               \/ <<PortB.connector, PortA.connector>> \in LegacyForms) )
         => /\ getPhysicalConnector(PortA) = getPhysicalConnector(PortB)
            /\ getPhysicalConnector(PortA) \in PhysicalConnector
    /\ ( /\ getPhysicalConnector(PortA) # Undefined
         /\ getPhysicalConnector(PortA) = getPhysicalConnector(PortB) )
         => /\ getConnectorCompatibility(PortA, PortB).compatible
            /\ ~Has(getConnectorCompatibility(PortA, PortB), "adapterCodes")
            /\ \A i \in DOMAIN inference.connections :
                 \A text \in UseAdvisories : ~includes(IssuesOf(inference.connections[i]), text)
            /\ \A k \in DOMAIN inference.requiredCables :
                 /\ ~Has(inference.requiredCables[k], "requiresAdapter")
                 /\ ~Has(inference.requiredCables[k], "adapters")

\* a canonical code overridden to the family a legacy code stands for: the
\* override decides, and the link needs no adapter
C5_Witness ==
  /\ Evaluated
  /\ PortA.connector = "trs-midi" /\ PortA.physicalConnector = "din5"
  /\ PortB.connector = "din_5" /\ PortB.physicalConnector = Undefined
  /\ Len(inference.requiredCables) = 2
  /\ \A i \in DOMAIN inference.connections : inference.connections[i].status = "valid"

\* the adapter chain the matrix holds for an unordered pair of families
MatrixChain(family, other) ==
  IF (family \o ":" \o other) \in DOMAIN ADAPTER_MATRIX
    THEN Some(ADAPTER_MATRIX[family \o ":" \o other])
  ELSE IF (other \o ":" \o family) \in DOMAIN ADAPTER_MATRIX
    THEN Some(ADAPTER_MATRIX[other \o ":" \o family])
  ELSE None

\* the label phrase of a chain: each code through the label table, joined with ' + '
LabelPhrase(chain) ==
  join([k \in DOMAIN chain |->
          IF chain[k] \in DOMAIN ADAPTER_LABELS THEN ADAPTER_LABELS[chain[k]] ELSE chain[k]],
       " + ")

\* C6: an unblocked connection between two different physical families that
\* the adapter matrix pairs (in either orientation) is 'pending', its first
\* issue is 'Use <label phrase>', its one cable suggestion has the label
\* phrase as description, the matrix chain as adapters and the destination
\* port's family as connector, and its summary is
\* '<from> → <to>: Use <label phrase>.'; Keystep trs-midi out to Digitakt
\* din5 in gives 'Keystep → Digitakt: Use TRS-A to DIN-5 MIDI cable.'.
C6_AdapterSuggestion ==
  Evaluated =>
    \A i \in DOMAIN connections :
      LET declared == connections[i]
          out == inference.connections[i]
          fromFamily == getPhysicalConnector(FromPortOf(declared).value)
          toFamily == getPhysicalConnector(ToPortOf(declared).value)
          chain == MatrixChain(fromFamily, toFamily)
      IN  ( /\ BothPortsExist(declared)
            /\ fromFamily # Undefined /\ toFamily # Undefined /\ fromFamily # toFamily
            /\ IsSome(chain)
            /\ Len(BlockingOf(declared)) = 0 )
          => /\ out.status = "pending"
             /\ Has(out, "issues")
             /\ out.issues[1] = "Use " \o LabelPhrase(chain.value)
             /\ Cardinality(CableIndexesOf(declared)) = 1
             /\ \A k \in CableIndexesOf(declared) :
                  /\ inference.requiredCables[k].description = LabelPhrase(chain.value)
                  /\ inference.requiredCables[k].adapters = chain.value
                  /\ inference.requiredCables[k].connector = toFamily
                  /\ inference.summaries[k]
                       = declared.from.deviceName \o " → " \o declared.to.deviceName
                           \o ": Use " \o LabelPhrase(chain.value) \o "."
                  /\ ( /\ FromPortOf(declared).value.connector = "trs-midi"
                       /\ ToPortOf(declared).value.connector = "din5"
                       /\ declared.from.deviceName = "Keystep"
                       /\ declared.to.deviceName = "Digitakt" )
                       => inference.summaries[k]
                            = "Keystep → Digitakt: Use TRS-A to DIN-5 MIDI cable."

\* Keystep's trs-midi output into Digitakt's din5 input, and a link whose
\* source is the din5 side of the same pair
C6_Witness ==
  /\ Evaluated
  /\ PortA.connector = "trs-midi" /\ PortA.direction = "in_out" /\ PortA.signals = <<"midi">>
  /\ PortB.connector = "din5" /\ PortB.direction = "in_out" /\ PortB.signals = <<"midi">>
  /\ inference.summaries = << "Keystep → Digitakt: Use TRS-A to DIN-5 MIDI cable.",
                              "Digitakt → Keystep: Use TRS-A to DIN-5 MIDI cable." >>
  /\ inference.connections[1].status = "pending"
  /\ inference.connections[2].status = "pending"

----------------------------------------------------------------------------
\* the returned connections that are not 'invalid', in the order returned
UsableConnections ==
  SelectSeq(inference.connections, LAMBDA connection : connection.status # "invalid")

\* C7: requiredCables and summaries hold exactly one entry for every
\* connection whose status is not 'invalid' and none for an 'invalid' one, in
\* the order of the input list: the two lists are as long as the list of
\* usable connections, and their k-th entries are the cable and the sentence
\* of the k-th usable connection.
C7_OneCablePerUsableConnection ==
  Evaluated =>
    /\ Len(inference.requiredCables) = Len(UsableConnections)
    /\ Len(inference.summaries) = Len(UsableConnections)
    /\ Len(inference.requiredCables) = Len(inference.summaries)
    /\ \A i \in DOMAIN connections :
         inference.connections[i].status # "invalid" <=> BlockingOf(connections[i]) = <<>>
    /\ \A k \in DOMAIN UsableConnections :
         /\ inference.requiredCables[k].id = UsableConnections[k].id \o "-cable"
         /\ inference.requiredCables[k].ports
              = <<UsableConnections[k].from, UsableConnections[k].to>>
         /\ inference.summaries[k]
              = UsableConnections[k].from.deviceName \o " → "
                  \o UsableConnections[k].to.deviceName \o ": Use "
                  \o inference.requiredCables[k].description \o "."

\* an invalid connection followed by a usable one: one cable, one sentence
C7_Witness ==
  /\ Evaluated
  /\ Len(inference.connections) = 2
  /\ inference.connections[1].status = "invalid"
  /\ inference.connections[2].status = "pending"
  /\ Len(inference.requiredCables) = 1
  /\ inference.summaries = <<"Keystep → Digitakt: Use TRS-A to DIN-5 MIDI cable.">>

----------------------------------------------------------------------------
\* the declared connections as handlePortSelection makes them: 'pending',
\* without issues
AsNewlyDeclared(declared) ==
  [i \in DOMAIN declared |->
     [id |-> declared[i].id, from |-> declared[i].from, to |-> declared[i].to,
      status |-> "pending"]]

\* C8: the returned connection list has the length and order of the input
\* list and keeps each connection's id, from and to; the status and issues
\* the input carries are ignored and replaced (the result is the one the
\* same connections give when they arrive 'pending' without issues); and
\* passing the returned connections in again gives the same result.
C8_ConnectionsKeptAndReevaluated ==
  /\ [](Evaluated =>
         /\ Len(inference.connections) = Len(connections)
         /\ \A i \in DOMAIN connections :
              /\ inference.connections[i].id = connections[i].id
              /\ inference.connections[i].from = connections[i].from
              /\ inference.connections[i].to = connections[i].to
         /\ inference
              = inferConnections(workspaceDevices, AsNewlyDeclared(connections), options))
  /\ [][FeedBack => inference' = inference]_vars

\* the returned connections, of every status, have been passed in again
C8_Witness ==
  /\ Evaluated
  /\ connections = inference.connections
  /\ Len(connections) = 2
  /\ connections[1].status = "valid" /\ ~Has(connections[1], "issues")
  /\ connections[2].status = "invalid" /\ Has(connections[2], "issues")

----------------------------------------------------------------------------
RECURSIVE Flatten(_)
Flatten(lists) == IF lists = <<>> THEN <<>> ELSE Head(lists) \o Flatten(Tail(lists))

\* the entries of a list that do not occur earlier in it, in order
RECURSIVE FirstOccurrences(_)
FirstOccurrences(s) ==
  IF s = <<>> THEN <<>>
  ELSE LET earlier == FirstOccurrences(SubSeq(s, 1, Len(s) - 1))
       IN  IF \E i \in 1..(Len(s) - 1) : s[i] = s[Len(s)]
             THEN earlier ELSE Append(earlier, s[Len(s)])

\* the topology sets as the loop over the connections leaves them
TopologyNow ==
  evaluateConnections(freshLocals, connections, DeviceMapNow,
                      monitorInstancesOf(workspaceDevices))

\* every message in the order the engine produces it: the issues of each
\* connection in connection order, then the messages of the global passes
ProducedMessages ==
  Flatten([i \in DOMAIN inference.connections |-> IssuesOf(inference.connections[i])])
  \o unroutedAudioWarnings(TopologyNow,
                           unroutedMidiAudioOf(TopologyNow,
                                               monitorInstancesOf(workspaceDevices),
                                               audioCapableInstancesOf(workspaceDevices)),
                           DeviceMapNow, monitorInstancesOf(workspaceDevices),
                           audioCapableInstancesOf(workspaceDevices))
  \o clockWarnings(TopologyNow.midiChainInstances, DeviceMapNow,
                   midiCapableInstancesOf(workspaceDevices), midiMastersOf(options))

\* C9: the warnings list holds no two identical entries, and its order is
\* the order in which each distinct message was first produced: the issues of
\* the connections in connection order, then the global passes.
C9_WarningsDistinctInOrder ==
  Evaluated =>
    /\ \A i, j \in DOMAIN inference.warnings :
         i # j => inference.warnings[i] # inference.warnings[j]
    /\ inference.warnings = FirstOccurrences(ProducedMessages)

\* two connections with the same issue, and two Volcas with the same
\* unclocked-device message: each text is listed once
C9_Witness ==
  /\ Evaluated
  /\ Len(inference.connections) = 2
  /\ IssuesOf(inference.connections[1]) = <<"Use TRS-A to DIN-5 MIDI cable">>
  /\ IssuesOf(inference.connections[2]) = <<"Use TRS-A to DIN-5 MIDI cable">>
  /\ Len(SelectSeq(workspaceDevices, LAMBDA instance : instance.device = Volca)) = 2
  /\ inference.warnings
       = << "Use TRS-A to DIN-5 MIDI cable",
            "Multiple MIDI-linked devices detected, but only one audio feed reaches monitors. Route additional outputs (e.g., into a mixer) so every device can be heard.",
            "Audio from Digitakt is not routed to any destination. Connect these devices to a mixer, audio interface, or monitors.",
            "Volca has MIDI ports but is not connected to the MIDI clock network.",
            "Set a clock master so your MIDI devices stay in sync." >>

----------------------------------------------------------------------------
\* a call that starts from nothing: every list and set of the engine empty
NothingCarried ==
  [updatedConnections |-> <<>>, warnings |-> <<>>, requiredCables |-> <<>>,
   summaries |-> <<>>, midiChainInstances |-> <<>>, audioLinkedInstances |-> <<>>,
   audioToMonitorInstances |-> <<>>]

\* what the engine reads of the placed instances: the id and the device
DeviceInstancesOf(devices) ==
  [i \in DOMAIN devices |->
     [instanceId |-> devices[i].instanceId, device |-> devices[i].device]]

----------------------------------------------------------------------------
\* both ports exist, the declared direction is legal, the domains do not
\* disagree and the signal sets overlap
StructurallySound(connection) ==
  /\ BothPortsExist(connection)
  /\ FromPortOf(connection).value.direction # "in"
  /\ ToPortOf(connection).value.direction # "out"
  /\ \/ ResolvedDomain(FromPortOf(connection).value) = Undefined
     \/ ResolvedDomain(ToPortOf(connection).value) = Undefined
     \/ ResolvedDomain(FromPortOf(connection).value)
          = ResolvedDomain(ToPortOf(connection).value)
  /\ Range(FromPortOf(connection).value.signals)
       \cap Range(ToPortOf(connection).value.signals) # {}

ConnectorsCompatible(connection) ==
  getConnectorCompatibility(FromPortOf(connection).value,
                            ToPortOf(connection).value).compatible

\* C11 as stated: a connection whose ports both exist, whose declared
\* direction is legal, whose domains agree and whose signal sets overlap is
\* never 'invalid', whatever its connectors and wiring intents.
C11_OnlyFourCategoriesInvalidate ==
  Evaluated =>
    \A i \in DOMAIN connections :
      StructurallySound(connections[i]) => inference.connections[i].status # "invalid"

\* C11 amended: connector mismatch is a fifth invalidating category.  A
\* structurally sound connection is 'invalid' exactly when the resolver finds
\* its connectors incompatible, its only issue then being the 'is not
\* compatible with' message; with compatible connectors it is never
\* 'invalid', whatever its wiring intents.
C11_OnlyFiveCategoriesInvalidate ==
  Evaluated =>
    \A i \in DOMAIN connections :
      StructurallySound(connections[i]) =>
        /\ inference.connections[i].status = "invalid"
             <=> ~ConnectorsCompatible(connections[i])
        /\ ~ConnectorsCompatible(connections[i]) =>
             IssuesOf(inference.connections[i])
               = << FromPortOf(connections[i]).value.label \o " ("
                      \o describeConnector(FromPortOf(connections[i]).value.connector)
                      \o ") is not compatible with "
                      \o ToPortOf(connections[i]).value.label \o " ("
                      \o describeConnector(ToPortOf(connections[i]).value.connector)
                      \o ")." >>

\* a sound connection with compatible connectors and mismatched wiring
\* intents: two advisories, status 'pending'
C11_Witness ==
  /\ Evaluated
  /\ \E i \in DOMAIN connections :
       /\ StructurallySound(connections[i])
       /\ ConnectorsCompatible(connections[i])
       /\ FromPortOf(connections[i]).value.audioWiring = "unbalanced_stereo"
       /\ ToPortOf(connections[i]).value.audioWiring = "balanced_mono"
       /\ Len(IssuesOf(inference.connections[i])) = 2
       /\ inference.connections[i].status = "pending"

----------------------------------------------------------------------------
\* the advisory messages the ports of a connection call for, blocked or not:
\* the adapter phrase of the resolver's verdict and the wiring advisories
AdvisoryConditionsOf(connection) ==
  IF BothPortsExist(connection)
    THEN advisoryMessagesFor(
           adapterDescriptionOf(getConnectorCompatibility(FromPortOf(connection).value,
                                                          ToPortOf(connection).value)),
           FromPortOf(connection).value, ToPortOf(connection).value)
    ELSE <<>>

----------------------------------------------------------------------------
\* how many entries of a list equal a given text
Occurrences(list, text) == Cardinality({k \in DOMAIN list : list[k] = text})

\* the wiring intent a port contributes: none unless it carries audio
WiringIntentOf(port) ==
  IF \E k \in DOMAIN port.signals : port.signals[k] = "audio"
    THEN port.audioWiring ELSE Undefined

MonoWirings == {"balanced_mono", "unbalanced_mono"}

\* C13: for every unblocked connection, the balanced/unbalanced advisory is
\* in its issues (once) exactly when both ports carry audio and their wiring
\* intents are balanced_mono and unbalanced_mono, the stereo-to-mono advisory
\* (once) exactly when one intent is unbalanced_stereo and the other a mono
\* variant, never both, none when the intents are equal or one is missing;
\* a connection with a wiring advisory is 'pending', not 'invalid', and its
\* cable suggestion is produced.
C13_AtMostOneWiringAdvisory ==
  Evaluated =>
    \A i \in DOMAIN connections :
      Len(BlockingOf(connections[i])) = 0 =>
        LET issues == IssuesOf(inference.connections[i])
            a == WiringIntentOf(FromPortOf(connections[i]).value)
            b == WiringIntentOf(ToPortOf(connections[i]).value)
            balanced == Occurrences(issues, BalancedMismatchMessage)
            stereo == Occurrences(issues, StereoMismatchMessage)
        IN  /\ balanced = (IF {a, b} = MonoWirings THEN 1 ELSE 0)
            /\ stereo = (IF \/ a = "unbalanced_stereo" /\ b \in MonoWirings
                            \/ b = "unbalanced_stereo" /\ a \in MonoWirings
                           THEN 1 ELSE 0)
            /\ balanced + stereo <= 1
            /\ (a = b \/ a = Undefined \/ b = Undefined) => balanced + stereo = 0
            /\ balanced + stereo = 1 =>
                 /\ inference.connections[i].status = "pending"
                 /\ Cardinality(CableIndexesOf(connections[i])) = 1
                 /\ issues[Len(issues)] \in {BalancedMismatchMessage, StereoMismatchMessage}
            /\ (balanced + stereo = 1 /\ Len(issues) = 1) =>
                 ~Has(inference.requiredCables[CHOOSE k \in CableIndexesOf(connections[i]) : TRUE],
                      "requiresAdapter")

\* a balanced output into an unbalanced input over the same connector: the
\* balanced/unbalanced advisory is the only issue and the cable is suggested
C13_Witness ==
  /\ Evaluated
  /\ \E i \in DOMAIN connections :
       /\ BothPortsExist(connections[i])
       /\ FromPortOf(connections[i]).value.audioWiring = "balanced_mono"
       /\ ToPortOf(connections[i]).value.audioWiring = "unbalanced_mono"
       /\ inference.connections[i].status = "pending"
       /\ IssuesOf(inference.connections[i]) = <<BalancedMismatchMessage>>
       /\ Cardinality(CableIndexesOf(connections[i])) = 1

----------------------------------------------------------------------------
\* Scenario A: a 3.5 mm TRS stereo audio output declared into a 6.35 mm TRS
\* balanced mono audio input, with no domain conflict
ScenarioA(connection) ==
  /\ StructurallySound(connection)
  /\ FromPortOf(connection).value.connector \in {"trs_3.5mm", "3.5mm-trs"}
  /\ FromPortOf(connection).value.physicalConnector = Undefined
  /\ FromPortOf(connection).value.direction = "out"
  /\ WiringIntentOf(FromPortOf(connection).value) = "unbalanced_stereo"
  /\ ToPortOf(connection).value.connector \in {"trs_6.35mm", "6.35mm-trs"}
  /\ ToPortOf(connection).value.physicalConnector = Undefined
  /\ ToPortOf(connection).value.direction = "in"
  /\ WiringIntentOf(ToPortOf(connection).value) = "balanced_mono"

\* C14: Scenario A yields 'pending', exactly one cable suggestion, described
\* as 'TRS stereo breakout cable', and the issues 'Use TRS stereo breakout
\* cable' followed by the stereo-to-mono advisory and nothing else.
C14_ScenarioA ==
  Evaluated =>
    \A i \in DOMAIN connections :
      ScenarioA(connections[i]) =>
        /\ inference.connections[i].status = "pending"
        /\ Len(inference.requiredCables) = 1
        /\ inference.requiredCables[1].id = connections[i].id \o "-cable"
        /\ inference.requiredCables[1].description = "TRS stereo breakout cable"
        /\ IssuesOf(inference.connections[i])
             = <<"Use TRS stereo breakout cable", StereoMismatchMessage>>
        /\ Occurrences(IssuesOf(inference.connections[i]), BalancedMismatchMessage) = 0

\* Scenario A evaluated with plain audio ports on both sides
C14_Witness ==
  /\ Evaluated
  /\ \E i \in DOMAIN connections :
       /\ ScenarioA(connections[i])
       /\ FromPortOf(connections[i]).value.connector = "trs_3.5mm"
       /\ FromPortOf(connections[i]).value.signals = <<"audio">>
       /\ ToPortOf(connections[i]).value.connector = "6.35mm-trs"
       /\ inference.connections[i].status = "pending"
       /\ Len(IssuesOf(inference.connections[i])) = 2
       /\ Len(inference.requiredCables) = 1

----------------------------------------------------------------------------
\* the designated clock masters: none when the option is left out
DesignatedMasters ==
  IF "clockMasterIds" \in DOMAIN options THEN options.clockMasterIds ELSE <<>>

\* a device with a port that carries midi or usb_midi
HasMidiPort(device) ==
  \E p \in DOMAIN device.ports :
    \E s \in DOMAIN device.ports[p].signals : device.ports[p].signals[s] \in {"midi", "usb_midi"}

\* the placed instance of an id, for an id that is placed
PlacedInstance(instanceId) ==
  workspaceDevices[CHOOSE i \in DOMAIN workspaceDevices :
                     workspaceDevices[i].instanceId = instanceId]

IsPlaced(instanceId) ==
  \E i \in DOMAIN workspaceDevices : workspaceDevices[i].instanceId = instanceId

\* the declared connections without a blocking issue that share 'midi'
MidiLinks ==
  { i \in DOMAIN connections :
      /\ Len(BlockingOf(connections[i])) = 0
      /\ "midi" \in Range(FromPortOf(connections[i]).value.signals)
                    \cap Range(ToPortOf(connections[i]).value.signals) }

\* C15: 'Set a clock master so your MIDI devices stay in sync.' is among the
\* warnings (once) exactly when some placed instance has a midi or usb_midi
\* port and no clock master is designated (the set empty or the option left
\* out), however many MIDI connections there are; 'Multiple MIDI clock
\* masters selected. ...' is among them (once) exactly when more than one
\* master is designated; the two are never there together.
C15_ClockMasterWarnings ==
  Evaluated =>
    LET missing == Occurrences(inference.warnings,
                               "Set a clock master so your MIDI devices stay in sync.")
        several == Occurrences(inference.warnings,
                               "Multiple MIDI clock masters selected. Choose only one master clock device.")
    IN  /\ missing = (IF /\ \E i \in DOMAIN workspaceDevices :
                               HasMidiPort(workspaceDevices[i].device)
                          /\ Len(DesignatedMasters) = 0
                         THEN 1 ELSE 0)
        /\ several = (IF Len(DesignatedMasters) > 1 THEN 1 ELSE 0)
        /\ missing + several <= 1

\* Scenario C: two MIDI connections between placed devices, the option left
\* out: the missing-master warning is there once
C15_Witness ==
  /\ Evaluated
  /\ Cardinality(MidiLinks) = 2
  /\ "clockMasterIds" \notin DOMAIN options
  /\ Occurrences(inference.warnings,
                 "Set a clock master so your MIDI devices stay in sync.") = 1

----------------------------------------------------------------------------
\* an instance that is an endpoint of an unblocked connection sharing 'midi'
OnMidiLink(instanceId) ==
  \E i \in MidiLinks : instanceId \in {connections[i].from.instanceId,
                                        connections[i].to.instanceId}

\* the designated clock masters that are placed
PlacedMasters ==
  { DesignatedMasters[k] : k \in { j \in DOMAIN DesignatedMasters :
                                     IsPlaced(DesignatedMasters[j]) } }

NameOf(instanceId) == PlacedInstance(instanceId).device.name

\* C16: for each designated clock master that is placed: if its device has no
\* port carrying midi or usb_midi, '<name> is marked as clock master but has
\* no MIDI clock outputs.' is among the warnings; else if it is no endpoint
\* of an unblocked connection sharing 'midi', '<name> is the clock master but
\* is not connected to any MIDI devices.' is; the warnings hold no per-master
\* text other than these (a master that has MIDI ports and is on a MIDI link
\* gets none, and a text carries the name of the master it is about), and
\* never both texts with the name of one master.
C16_PerMasterWarnings ==
  Evaluated =>
    /\ \A m \in PlacedMasters :
         /\ ~HasMidiPort(PlacedInstance(m).device) =>
              includes(inference.warnings,
                       NameOf(m) \o " is marked as clock master but has no MIDI clock outputs.")
         /\ (HasMidiPort(PlacedInstance(m).device) /\ ~OnMidiLink(m)) =>
              includes(inference.warnings,
                       NameOf(m) \o " is the clock master but is not connected to any MIDI devices.")
    /\ \A i \in DOMAIN workspaceDevices :
         LET name == workspaceDevices[i].device.name
             without == name \o " is marked as clock master but has no MIDI clock outputs."
             apart == name \o " is the clock master but is not connected to any MIDI devices."
         IN  /\ includes(inference.warnings, without) =>
                  \E m \in PlacedMasters :
                    NameOf(m) = name /\ ~HasMidiPort(PlacedInstance(m).device)
             /\ includes(inference.warnings, apart) =>
                  \E m \in PlacedMasters :
                    /\ NameOf(m) = name
                    /\ HasMidiPort(PlacedInstance(m).device)
                    /\ ~OnMidiLink(m)
             /\ ~(includes(inference.warnings, without) /\ includes(inference.warnings, apart))

\* a master whose only connection shares usb_midi: it has MIDI ports, so it
\* gets the second text and not the first
C16_Witness ==
  /\ Evaluated
  /\ DesignatedMasters = <<"launchpad-1">>
  /\ IsPlaced("launchpad-1")
  /\ \E i \in DOMAIN connections :
       /\ connections[i].from.instanceId = "launchpad-1"
       /\ inference.connections[i].status = "valid"
  /\ includes(inference.warnings,
              "Launchpad is the clock master but is not connected to any MIDI devices.")
  /\ ~includes(inference.warnings,
               "Launchpad is marked as clock master but has no MIDI clock outputs.")

----------------------------------------------------------------------------
\* C17: for every placed instance with a port carrying midi or usb_midi that
\* is no endpoint of an unblocked connection sharing 'midi', the warnings hold
\* '<name> has MIDI ports but is not connected to the MIDI clock network.';
\* the text is there for no other reason (some placed instance of that name
\* has such a port and is on no such connection), so an instance whose only
\* connections are invalid or share usb_midi alone is warned about, and one
\* on a MIDI link is not.
C17_UnclockedWarnings ==
  Evaluated =>
    \A i \in DOMAIN workspaceDevices :
      LET text == workspaceDevices[i].device.name
                    \o " has MIDI ports but is not connected to the MIDI clock network."
      IN  /\ (HasMidiPort(workspaceDevices[i].device)
                /\ ~OnMidiLink(workspaceDevices[i].instanceId))
               => Occurrences(inference.warnings, text) = 1
          /\ includes(inference.warnings, text) =>
               \E j \in DOMAIN workspaceDevices :
                 /\ workspaceDevices[j].device.name = workspaceDevices[i].device.name
                 /\ HasMidiPort(workspaceDevices[j].device)
                 /\ ~OnMidiLink(workspaceDevices[j].instanceId)

\* the sequencer on a MIDI link and the controller on a valid USB MIDI link:
\* the first is not warned about, the second is
C17_Witness ==
  /\ Evaluated
  /\ OnMidiLink("keystep-1")
  /\ \E i \in DOMAIN connections :
       /\ connections[i].from.instanceId = "launchpad-1"
       /\ inference.connections[i].status = "valid"
  /\ includes(inference.warnings,
              "Launchpad has MIDI ports but is not connected to the MIDI clock network.")
  /\ ~includes(inference.warnings,
               "Keystep has MIDI ports but is not connected to the MIDI clock network.")

----------------------------------------------------------------------------
\* the MIDI-chain members in the order they join: the endpoints of the
\* unblocked connections sharing 'midi'
ChainOrder ==
  FirstOccurrences(Flatten([i \in DOMAIN connections |->
                              IF i \in MidiLinks
                                THEN <<connections[i].from.instanceId,
                                       connections[i].to.instanceId>>
                                ELSE <<>>]))

\* a device with an output-capable port carrying 'audio'
HasAudioOutput(device) ==
  \E p \in DOMAIN device.ports :
    /\ device.ports[p].direction \in {"out", "in_out"}
    /\ "audio" \in Range(device.ports[p].signals)

\* an instance that is the sending or receiving end of an unblocked
\* connection sharing 'audio'
AudioLinked(instanceId) ==
  \E i \in DOMAIN connections :
    /\ Len(BlockingOf(connections[i])) = 0
    /\ "audio" \in Range(FromPortOf(connections[i]).value.signals)
                     \cap Range(ToPortOf(connections[i]).value.signals)
    /\ \/ /\ connections[i].from.instanceId = instanceId
          /\ FromPortOf(connections[i]).value.direction # "in"
       \/ /\ connections[i].to.instanceId = instanceId
          /\ ToPortOf(connections[i]).value.direction # "out"

\* the chain members whose audio goes nowhere
UnroutedMembers ==
  SelectSeq(ChainOrder,
            LAMBDA instanceId : /\ HasAudioOutput(PlacedInstance(instanceId).device)
                                /\ ~AudioLinked(instanceId)
                                /\ ~isMonitorDevice(PlacedInstance(instanceId).device))

\* the unrouted-audio warning that names the given instances
UnroutedText(instanceIds) ==
  "Audio from "
    \o join([k \in DOMAIN instanceIds |->
               IF IsPlaced(instanceIds[k]) THEN NameOf(instanceIds[k]) ELSE instanceIds[k]],
            ", ")
    \o " is not routed to any destination. Connect these devices to a mixer, audio interface, or monitors."

\* every instance id in sight: the endpoints of the declared connections,
\* then the placed instances
IdsInSight ==
  FirstOccurrences(
    Flatten([i \in DOMAIN connections |->
               <<connections[i].from.instanceId, connections[i].to.instanceId>>])
    \o [i \in DOMAIN workspaceDevices |-> workspaceDevices[i].instanceId])

\* C18: the 'Audio from ... is not routed to any destination' warning is
\* among the warnings only when at least two distinct instances are
\* MIDI-chain members and one of them has an audio output, is not
\* audio-linked and is no monitor; it then names exactly those members, in
\* the order they joined the chain, and no unrouted-audio warning naming any
\* other selection of instances is there; an instance without an
\* output-capable audio port is never named.
C18_UnroutedAudioNamesChainMembers ==
  Evaluated =>
    LET emitted == Cardinality(Range(ChainOrder)) >= 2 /\ UnroutedMembers # <<>>
    IN  /\ emitted => Occurrences(inference.warnings, UnroutedText(UnroutedMembers)) = 1
        /\ \A named \in SUBSET Range(IdsInSight) :
             (named # {} /\ includes(inference.warnings,
                                      UnroutedText(SelectSeq(IdsInSight,
                                                             LAMBDA id : id \in named))))
               => /\ emitted
                  /\ UnroutedText(SelectSeq(IdsInSight, LAMBDA id : id \in named))
                       = UnroutedText(UnroutedMembers)

\* Scenario D: the sequencer drives the Volca and the Monologue over MIDI,
\* no monitor is placed and no audio is connected: the two synths are named,
\* the sequencer, which has no audio output, is not
C18_Witness ==
  /\ Evaluated
  /\ ChainOrder = <<"keystep-1", "volca-1", "monologue-1">>
  /\ ~IsPlaced("hs5-1")
  /\ UnroutedMembers = <<"volca-1", "monologue-1">>
  /\ includes(inference.warnings,
              "Audio from Volca, Monologue is not routed to any destination. Connect these devices to a mixer, audio interface, or monitors.")

----------------------------------------------------------------------------
\* the unrouted-audio warning naming a selection of the instances in sight
NamingText(named) == UnroutedText(SelectSeq(IdsInSight, LAMBDA id : id \in named))

\* a declared connection on a port of the instance that carries audio
OnAudioPortOf(connection, instanceId) ==
  \/ /\ connection.from.instanceId = instanceId
     /\ IsSome(FromPortOf(connection))
     /\ "audio" \in Range(FromPortOf(connection).value.signals)
  \/ /\ connection.to.instanceId = instanceId
     /\ IsSome(ToPortOf(connection))
     /\ "audio" \in Range(ToPortOf(connection).value.signals)

\* Scenario E: the audio of the first synth goes into an audio input of the
\* second and nowhere else, neither is a monitor, and a monitor is placed
\* with nothing connected to it
ScenarioE(first, second) ==
  /\ IsPlaced(first) /\ IsPlaced(second) /\ first # second
  /\ ~isMonitorDevice(PlacedInstance(first).device)
  /\ ~isMonitorDevice(PlacedInstance(second).device)
  /\ \E i \in DOMAIN connections :
       /\ connections[i].from.instanceId = first
       /\ connections[i].to.instanceId = second
       /\ Len(BlockingOf(connections[i])) = 0
       /\ FromPortOf(connections[i]).value.direction = "out"
       /\ ToPortOf(connections[i]).value.direction = "in"
       /\ "audio" \in Range(FromPortOf(connections[i]).value.signals)
                        \cap Range(ToPortOf(connections[i]).value.signals)
  /\ \A i \in DOMAIN connections :
       OnAudioPortOf(connections[i], first) =>
         /\ connections[i].from.instanceId = first
         /\ connections[i].to.instanceId = second
         /\ Len(BlockingOf(connections[i])) = 0
  /\ \E k \in DOMAIN workspaceDevices : isMonitorDevice(workspaceDevices[k].device)
  /\ \A i \in DOMAIN connections, k \in DOMAIN workspaceDevices :
       isMonitorDevice(workspaceDevices[k].device) =>
         workspaceDevices[k].instanceId
           \notin {connections[i].from.instanceId, connections[i].to.instanceId}

PlacedIds == {workspaceDevices[k].instanceId : k \in DOMAIN workspaceDevices}

\* C19 as stated: in Scenario E the warnings hold an 'Audio from ... is not
\* routed to any destination' warning that names the first synth, and the
\* search from that synth reaches no monitor.
C19_ScenarioENamesFirstSynth ==
  Evaluated =>
    \A first \in PlacedIds, second \in PlacedIds :
      ScenarioE(first, second) =>
        /\ \E named \in SUBSET Range(IdsInSight) :
             first \in named /\ includes(inference.warnings, NamingText(named))
        /\ ~canPlayTestSound(first, workspaceDevices, inference.connections)

\* C19 amended: in Scenario E no 'Audio from ... is not routed to any
\* destination' warning is there on account of the first synth (any such
\* warning that is there names a selection of the other instances), and the
\* search from that synth reaches no monitor.
C19_ScenarioEFirstSynthNotNamed ==
  Evaluated =>
    \A first \in PlacedIds, second \in PlacedIds :
      ScenarioE(first, second) =>
        /\ \A named \in SUBSET Range(IdsInSight) :
             (first \in named /\ includes(inference.warnings, NamingText(named)))
               => \E others \in SUBSET (Range(IdsInSight) \ {first}) :
                    NamingText(others) = NamingText(named)
        /\ ~canPlayTestSound(first, workspaceDevices, inference.connections)

\* Scenario E with the first synth on the MIDI chain as well: the Volca is
\* driven by the sequencer and sends its audio into the Monologue, the
\* monitor stands apart; no unrouted-audio warning, no way to the monitor
C19_Witness ==
  /\ Evaluated
  /\ ScenarioE("volca-1", "monologue-1")
  /\ ChainOrder = <<"keystep-1", "volca-1">>
  /\ \A named \in SUBSET Range(IdsInSight) :
       named # {} => ~includes(inference.warnings, NamingText(named))
  /\ ~canPlayTestSound("volca-1", workspaceDevices, inference.connections)

----------------------------------------------------------------------------
\* the connector codes that stand for no physical family
FamilyLessCodes == {"usb_a", "usb_b", "usb_c", "sync_out", "sync_in", "cv_gate"}

\* a port that resolves to no physical family: such a code and no override
FamilyLess(port) ==
  port.physicalConnector = Undefined /\ port.connector \in FamilyLessCodes

\* C20: the ports that resolve to no physical family are those with a code
\* among usb_a, usb_b, usb_c, sync_out, sync_in, cv_gate and no override;
\* when at least one of the two ports is such a port, the resolver reports
\* compatible exactly when the two raw connector codes are equal, and never
\* any adapter codes: the link between them is 'invalid' exactly when the
\* codes differ, and a suggested cable has that code and no adapter.
C20_FamilyLessNeedsEqualCodes ==
  Evaluated =>
    /\ \A port \in {PortA, PortB} :
         FamilyLess(port) <=> getPhysicalConnector(port) = Undefined
    /\ (FamilyLess(PortA) \/ FamilyLess(PortB)) =>
         /\ getConnectorCompatibility(PortA, PortB).compatible
              <=> PortA.connector = PortB.connector
         /\ getConnectorCompatibility(PortB, PortA).compatible
              <=> PortA.connector = PortB.connector
         /\ ~Has(getConnectorCompatibility(PortA, PortB), "adapterCodes")
         /\ ~Has(getConnectorCompatibility(PortB, PortA), "adapterCodes")
         /\ \A i \in DOMAIN inference.connections :
              (inference.connections[i].status = "invalid")
                <=> PortA.connector # PortB.connector
         /\ \A k \in DOMAIN inference.requiredCables :
              /\ inference.requiredCables[k].connector = PortA.connector
              /\ ~Has(inference.requiredCables[k], "adapters")
              /\ ~Has(inference.requiredCables[k], "requiresAdapter")
         /\ Len(inference.requiredCables)
              = (IF PortA.connector = PortB.connector THEN 2 ELSE 0)

\* a USB-B port linked to a USB-C port: incompatible both ways, no cable
C20_Witness ==
  /\ Evaluated
  /\ PortA.connector = "usb_b" /\ PortA.physicalConnector = Undefined
  /\ PortB.connector = "usb_c" /\ PortB.physicalConnector = Undefined
  /\ ~getConnectorCompatibility(PortA, PortB).compatible
  /\ inference.connections[1].status = "invalid"
  /\ inference.connections[2].status = "invalid"
  /\ inference.requiredCables = <<>>

----------------------------------------------------------------------------
\* a 6.35 mm TS port and a 6.35 mm TRS port: by override, or by a legacy or
\* canonical code without one
IsPhoneTS(port) ==
  \/ port.physicalConnector = "6.35mm-ts"
  \/ port.physicalConnector = Undefined /\ port.connector \in {"ts_6.35mm", "6.35mm-ts"}

IsPhoneTRS(port) ==
  \/ port.physicalConnector = "6.35mm-trs"
  \/ port.physicalConnector = Undefined /\ port.connector \in {"trs_6.35mm", "6.35mm-trs"}

\* a combo XLR/TRS port that resolves through the legacy map
IsCombo(port) == port.connector = "combo_xlr_trs" /\ port.physicalConnector = Undefined

\* the verdict 'compatible, no adapter codes, resolving to the family'
FitsAs(connectorCompatibility, family) ==
  /\ connectorCompatibility.compatible
  /\ ~Has(connectorCompatibility, "adapterCodes")
  /\ connectorCompatibility.resultingConnector = family

\* the two cables of an evaluated link in both orientations have the given
\* connector and no adapter
CablesAre(family) ==
  /\ Len(inference.requiredCables) = 2
  /\ \A k \in DOMAIN inference.requiredCables :
       /\ inference.requiredCables[k].connector = family
       /\ ~Has(inference.requiredCables[k], "adapters")
       /\ ~Has(inference.requiredCables[k], "requiresAdapter")

----------------------------------------------------------------------------
\* a list without its i-th entry
RemoveAt(list, i) == SubSeq(list, 1, i - 1) \o SubSeq(list, i + 1, Len(list))

\* a declared connection with a dangling reference: an instance that is not
\* placed, or a port id its device does not have
Broken(connection) == ~BothPortsExist(connection)

\* the structural issues of a declared connection, in the order of lines 253-270
StructuralIssuesOf(connection) ==
  (IF ~IsPlaced(connection.from.instanceId)
     THEN <<"Source device is no longer available.">> ELSE <<>>)
  \o (IF ~IsPlaced(connection.to.instanceId)
        THEN <<"Destination device is no longer available.">> ELSE <<>>)
  \o (IF ~IsSome(FromPortOf(connection))
        THEN <<"Source port not found on device.">> ELSE <<>>)
  \o (IF ~IsSome(ToPortOf(connection))
        THEN <<"Destination port not found on device.">> ELSE <<>>)

\* the evaluation of the declared connections without the i-th
EvaluationWithout(i) == inferConnections(workspaceDevices, RemoveAt(connections, i), options)

TopologyWithout(i) ==
  evaluateConnections(freshLocals, RemoveAt(connections, i), DeviceMapNow,
                      monitorInstancesOf(workspaceDevices))

\* C22: a connection whose source or destination instance is not placed, or
\* whose port id is not found on the device, comes back 'invalid' with the
\* 'no longer available' and 'not found on device' issues first in its
\* issues, has no cable suggestion, and adds nothing to the MIDI chain or the
\* audio-linked set; every connection is returned, and the other
\* connections, the cable suggestions and the summaries are what the
\* evaluation without the broken connection gives.
C22_BrokenConnectionsAreInert ==
  Evaluated =>
    /\ Len(inference.connections) = Len(connections)
    /\ \A i \in DOMAIN connections :
         Broken(connections[i]) =>
           /\ inference.connections[i].status = "invalid"
           /\ Len(StructuralIssuesOf(connections[i])) > 0
           /\ SubSeq(IssuesOf(inference.connections[i]), 1,
                     Len(StructuralIssuesOf(connections[i])))
                = StructuralIssuesOf(connections[i])
           /\ CableIndexesOf(connections[i])
                = { k \in DOMAIN inference.requiredCables :
                      \E j \in DOMAIN connections :
                        /\ j # i /\ connections[j].id = connections[i].id
                        /\ inference.connections[j].status # "invalid" }
           /\ RemoveAt(inference.connections, i) = EvaluationWithout(i).connections
           /\ inference.requiredCables = EvaluationWithout(i).requiredCables
           /\ inference.summaries = EvaluationWithout(i).summaries
           /\ TopologyNow.midiChainInstances = TopologyWithout(i).midiChainInstances
           /\ TopologyNow.audioLinkedInstances = TopologyWithout(i).audioLinkedInstances

\* a link from a port the Keystep does not have, declared before a sound
\* link: the first is invalid for the missing port, the second is evaluated
\* as if it stood alone
C22_Witness ==
  /\ Evaluated
  /\ Len(connections) = 2
  /\ connections[1].from.portId = "midi-thru"
  /\ IsPlaced(connections[1].from.instanceId)
  /\ IssuesOf(inference.connections[1]) = <<"Source port not found on device.">>
  /\ inference.connections[2].status # "invalid"
  /\ Len(inference.requiredCables) = 1
  /\ Len(TopologyNow.midiChainInstances) = 2

----------------------------------------------------------------------------
\* the audio adjacency relation of the evaluated connections
GraphNow == audioGraph(inference.connections, DeviceMapNow)

AudioSignals == {"audio", "usb_audio"}

\* the two ports of a declared connection share an audio signal
SharesAudio(connection) ==
  /\ BothPortsExist(connection)
  /\ Range(FromPortOf(connection).value.signals)
       \cap Range(ToPortOf(connection).value.signals) \cap AudioSignals # {}

\* the edges a declared connection contributes
EdgesOf(i) == { k \in DOMAIN GraphNow : GraphNow[k].connectionId = connections[i].id }

\* C23: the audio adjacency relation has an edge for a connection only if
\* the connection's evaluated status is not 'invalid' and the two ports
\* share an audio signal; a connection that is 'invalid', or whose ports
\* share no audio signal, contributes no edge.
C23_EdgesNeedSharedAudio ==
  Evaluated =>
    /\ \A k \in DOMAIN GraphNow :
         \E i \in DOMAIN connections :
           /\ connections[i].id = GraphNow[k].connectionId
           /\ inference.connections[i].status # "invalid"
           /\ SharesAudio(connections[i])
    /\ \A i \in DOMAIN connections :
         (inference.connections[i].status = "invalid" \/ ~SharesAudio(connections[i]))
           => EdgesOf(i) = {}

----------------------------------------------------------------------------
\* the directed pairs a declared connection contributes to the relation
PairsOf(i) == { <<GraphNow[k].from, GraphNow[k].neighbor>> : k \in EdgesOf(i) }

\* C24: every connection that contributes to the audio adjacency relation
\* gives the edge from its declared source instance to its declared
\* destination instance, and the reverse edge as well exactly when both of
\* its ports have direction 'in_out'; it gives no other edge, so none leaves
\* the instance of an input-only port or enters the instance of an
\* output-only port.
C24_EdgesFollowDirections ==
  Evaluated =>
    \A i \in DOMAIN connections :
      EdgesOf(i) # {} =>
        LET source == connections[i].from.instanceId
            destination == connections[i].to.instanceId
            twoWay == /\ FromPortOf(connections[i]).value.direction = "in_out"
                      /\ ToPortOf(connections[i]).value.direction = "in_out"
        IN  /\ <<source, destination>> \in PairsOf(i)
            /\ <<destination, source>> \in PairsOf(i) <=> twoWay
            /\ PairsOf(i) \subseteq {<<source, destination>>, <<destination, source>>}
            /\ FromPortOf(connections[i]).value.direction # "in"
            /\ ToPortOf(connections[i]).value.direction # "out"
            /\ Cardinality(EdgesOf(i))
                 = (IF twoWay THEN 2 ELSE 1)
                     * Cardinality({ j \in DOMAIN connections :
                                       connections[j].id = connections[i].id })

\* the mixer's two-way bus wired to the two-way send of the effects unit, and
\* the effects unit wired to the monitor's input: two edges for the first
\* connection, one for the second
C24_Witness ==
  /\ Evaluated
  /\ Len(connections) = 2
  /\ PairsOf(1) = {<<"mixer-1", "fx-1">>, <<"fx-1", "mixer-1">>}
  /\ PairsOf(2) = {<<"fx-1", "hs5-1">>}
  /\ Len(GraphNow) = 3

----------------------------------------------------------------------------
\* every instance id of the rig, the removed one included
RigIds == {RigInstances[k].instanceId : k \in DOMAIN RigInstances}

\* the placed monitors
MonitorIds ==
  {workspaceDevices[k].instanceId :
     k \in {j \in DOMAIN workspaceDevices : isMonitorDevice(workspaceDevices[j].device)}}

\* the instances one edge of the adjacency relation away from a set
StepFrom(ids) == ids \cup {GraphNow[k].neighbor : k \in {j \in DOMAIN GraphNow : GraphNow[j].from \in ids}}

\* the instances reachable from a set along edges of the adjacency relation
RECURSIVE ReachableFrom(_)
ReachableFrom(ids) == IF StepFrom(ids) = ids THEN ids ELSE ReachableFrom(StepFrom(ids))

\* the instance has an audio port that can send
SendsAudio(instanceId) ==
  \E p \in DOMAIN PlacedInstance(instanceId).device.ports :
    /\ PlacedInstance(instanceId).device.ports[p].direction \in {"out", "in_out"}
    /\ Range(PlacedInstance(instanceId).device.ports[p].signals) \cap AudioSignals # {}

\* the instances on some cycle of the adjacency relation
OnCycle == {id \in PlacedIds : \E k \in DOMAIN GraphNow :
                                  GraphNow[k].from = id /\ id \in ReachableFrom({GraphNow[k].neighbor})}

\* C25: the test-tone affordance is offered for an instance exactly when the
\* instance is placed, is not tagged 'no_test_sound', has an audio port that
\* can send, is not a monitor, and some monitor is reachable from it along
\* edges of the audio adjacency relation; so it is never offered for a
\* monitor nor while no monitor is placed, and the search gives its answer
\* also when the relation has cycles.
C25_TestToneOffer ==
  Evaluated =>
    /\ \A id \in RigIds :
         canPlayTestSound(id, workspaceDevices, inference.connections)
           <=> /\ IsPlaced(id)
               /\ "no_test_sound" \notin Range(PlacedInstance(id).device.tags)
               /\ SendsAudio(id)
               /\ id \notin MonitorIds
               /\ ReachableFrom({id}) \cap MonitorIds # {}
    /\ \A id \in MonitorIds : ~canPlayTestSound(id, workspaceDevices, inference.connections)
    /\ MonitorIds = {} =>
         \A id \in RigIds : ~canPlayTestSound(id, workspaceDevices, inference.connections)

\* the synth feeds the mixer, whose two-way bus and the two-way send of the
\* effects unit form a cycle, and only the effects unit feeds the monitor:
\* the tone is offered for the synth, the mixer and the effects unit, not for
\* the monitor, and not for the unconnected click
C25_Witness ==
  /\ Evaluated
  /\ OnCycle = {"mixer-1", "fx-1"}
  /\ ReachableFrom({"synth-1"}) = {"synth-1", "mixer-1", "fx-1", "hs5-1"}
  /\ canPlayTestSound("synth-1", workspaceDevices, inference.connections)
  /\ canPlayTestSound("mixer-1", workspaceDevices, inference.connections)
  /\ canPlayTestSound("fx-1", workspaceDevices, inference.connections)
  /\ ~canPlayTestSound("hs5-1", workspaceDevices, inference.connections)
  /\ ~canPlayTestSound("click-1", workspaceDevices, inference.connections)

----------------------------------------------------------------------------
\* String.prototype.includes on a text of any length
Contains(text, part) ==
  \E i \in 1..(Len(text) - Len(part) + 1) : SubSeq(text, i, i + Len(part) - 1) = part

\* the issues the engine returned for the i-th declared connection
ReturnedIssues(i) ==
  IF Has(inference.connections[i], "issues") THEN Range(inference.connections[i].issues) ELSE {}

\* recommendBetweenDevices has been applied to the pair held
Recommended == inference # Null

\* the ordered pairs (sending port, receiving port) between two devices
Pairings(source, target) ==
  { <<source.ports[p], target.ports[q]>> :
      p \in {k \in DOMAIN source.ports : source.ports[k].direction # "in"},
      q \in {k \in DOMAIN target.ports : target.ports[k].direction # "out"} }

\* C26: every connection synthesized for a pair of devices has a source port
\* of direction 'out' or 'in_out' and a destination port of direction 'in' or
\* 'in_out', so the engine returns no 'cannot send signals' nor 'cannot
\* receive signals' issue for it; and both orientations are enumerated: every
\* sending port of either device is paired with every receiving port of the
\* other.
C26_SynthesizedFollowDirections ==
  Recommended =>
    LET deviceA == workspaceDevices[1].device
        deviceB == workspaceDevices[2].device
    IN  /\ \A i \in DOMAIN connections :
             /\ BothPortsExist(connections[i])
             /\ FromPortOf(connections[i]).value.direction \in {"out", "in_out"}
             /\ ToPortOf(connections[i]).value.direction \in {"in", "in_out"}
             /\ \A issue \in ReturnedIssues(i) :
                  ~Contains(issue, "cannot send") /\ ~Contains(issue, "cannot receive")
        /\ \A pair \in Pairings(deviceA, deviceB) :
             \E i \in DOMAIN connections :
               /\ connections[i].from
                    = portReference(workspaceDevices[1].instanceId, deviceA, pair[1])
               /\ connections[i].to
                    = portReference(workspaceDevices[2].instanceId, deviceB, pair[2])
        /\ \A pair \in Pairings(deviceB, deviceA) :
             \E i \in DOMAIN connections :
               /\ connections[i].from
                    = portReference(workspaceDevices[2].instanceId, deviceB, pair[1])
               /\ connections[i].to
                    = portReference(workspaceDevices[1].instanceId, deviceA, pair[2])
        /\ Len(connections)
             = Cardinality(Pairings(deviceA, deviceB)) + Cardinality(Pairings(deviceB, deviceA))

\* the synth and the laptop: the synth's three sending ports into the
\* laptop's two-way USB port, and the laptop's USB port into the synth's
\* two-way USB port, the only port of the synth that receives
C26_Witness ==
  /\ Recommended
  /\ workspaceDevices[1].device.name = "Synth"
  /\ workspaceDevices[2].device.name = "Laptop"
  /\ Len(connections) = 4
  /\ connections[4].from.instanceId = "device-laptop"
  /\ connections[4].to.portId = "usb"
  /\ \E i \in DOMAIN connections : inference.connections[i].status = "invalid"

\* the phrase of a cable suggestion, from the names of the two devices
PhraseOf(cable) ==
  cable.ports[1].deviceName \o " → " \o cable.ports[2].deviceName
    \o ": Use " \o cable.description

----------------------------------------------------------------------------
\* the instance ids a declared connection references
EndsOf(connection) == {connection.from.instanceId, connection.to.instanceId}

\* the instance ids placed in the state an action leads to
PlacedIdsAfter == {workspaceDevices'[k].instanceId : k \in DOMAIN workspaceDevices'}

\* C28: after any sequence of workspace operations every declared connection
\* references two placed instances and a pending port selection is on a
\* placed instance, so no connection is returned with a 'device is no longer
\* available' issue; and a step that removes an instance leaves exactly the
\* connections that do not reference it and no selection on it.
C28_ConnectionsReferencePlacedInstances ==
  /\ [](/\ \A i \in DOMAIN connections : EndsOf(connections[i]) \subseteq PlacedIds
        /\ selectedPort # Null => selectedPort.instanceId \in PlacedIds
        /\ \A i \in DOMAIN inference.connections :
             /\ "Source device is no longer available." \notin ReturnedIssues(i)
             /\ "Destination device is no longer available." \notin ReturnedIssues(i))
  /\ [][\A id \in PlacedIds \ PlacedIdsAfter :
          /\ connections' = SelectSeq(connections, LAMBDA connection : id \notin EndsOf(connection))
          /\ selectedPort' = IF selectedPort # Null /\ selectedPort.instanceId = id
                               THEN Null ELSE selectedPort]_vars

\* a cable between two placed instances and a port of one of them selected:
\* the state in which removing either instance has a connection and, for one
\* of them, a selection to take along
C28_Witness ==
  /\ Len(workspaceDevices) = 2
  /\ Len(connections) = 1
  /\ connections[1].from.instanceId # connections[1].to.instanceId
  /\ selectedPort # Null
  /\ selectedPort.instanceId = connections[1].to.instanceId

\* the two (instance, port) endpoints of a declared connection
EndpointsOf(connection) ==
  {<<connection.from.instanceId, connection.from.portId>>,
   <<connection.to.instanceId, connection.to.portId>>}

\* C29: the declared connections never hold two connections that join the
\* same unordered pair of (instance, port) endpoints, nor a connection from a
\* port to itself; a step that changes the list leaves it without such a
\* pair, and a step that lengthens it appends one connection that joins a
\* pair not joined before.
C29_NoDuplicateConnections ==
  /\ [](/\ \A i, j \in DOMAIN connections :
             i # j => EndpointsOf(connections[i]) # EndpointsOf(connections[j])
        /\ \A i \in DOMAIN connections : Cardinality(EndpointsOf(connections[i])) = 2)
  /\ [][Len(connections') > Len(connections) =>
          /\ SubSeq(connections', 1, Len(connections)) = connections
          /\ Len(connections') = Len(connections) + 1
          /\ \A i \in DOMAIN connections :
               EndpointsOf(connections[i]) # EndpointsOf(connections'[Len(connections')])]_vars

\* two cables, and the sending port of the second selected: clicking the
\* receiving port of the second, or dragging an end of one cable onto an end
\* of the other, would join a pair that is joined already
C29_Witness ==
  /\ Len(connections) = 2
  /\ selectedPort # Null
  /\ <<selectedPort.instanceId, selectedPort.portId>> \in EndpointsOf(connections[2])
  /\ EndpointsOf(connections[1]) \cap EndpointsOf(connections[2]) # {}

\* the placed instances flagged as clock master, by position
Flagged == {i \in DOMAIN workspaceDevices : workspaceDevices[i].isClockMaster}

\* the device has a port that sends 'midi'
SendsMidi(device) ==
  \E p \in DOMAIN device.ports :
    device.ports[p].direction # "in" /\ "midi" \in Range(device.ports[p].signals)

\* C30: at most one placed instance is flagged as clock master, every flagged
\* instance has a port that can send 'midi', the engine is given at most one
\* clock-master id, and the warnings hold neither 'Multiple MIDI clock
\* masters selected...' nor '... has no MIDI clock outputs.'; a step that
\* flags an instance leaves no other instance flagged, and no step changes
\* the flag of an instance whose device cannot send 'midi'.
C30_SingleEligibleClockMaster ==
  /\ [](/\ Cardinality(Flagged) <= 1
        /\ \A i \in Flagged : SendsMidi(workspaceDevices[i].device)
        /\ Len(options.clockMasterIds) <= 1
        /\ \A k \in DOMAIN inference.warnings :
             /\ inference.warnings[k]
                  # "Multiple MIDI clock masters selected. Choose only one master clock device."
             /\ ~Contains(inference.warnings[k], "has no MIDI clock outputs"))
  /\ [][\A i \in DOMAIN workspaceDevices' :
          (/\ i \in DOMAIN workspaceDevices
           /\ workspaceDevices'[i].instanceId = workspaceDevices[i].instanceId
           /\ workspaceDevices'[i].isClockMaster # workspaceDevices[i].isClockMaster)
            => /\ SendsMidi(workspaceDevices[i].device)
               /\ workspaceDevices'[i].isClockMaster =>
                    \A j \in DOMAIN workspaceDevices' :
                      j # i => ~workspaceDevices'[j].isClockMaster]_vars


====
